---------------------------- MODULE Spec2Model ----------------------------
(***************************************************************************)
(* Forest server core: task selection (TaskIntelligence), goal             *)
(* decomposition and frontier generation (HtaTreeBuilder).                 *)
(*                                                                         *)
(* JavaScript strings are modelled as sequences of one-character strings,  *)
(* so that parsing, formatting, lower-casing and substring search are      *)
(* computed as the code computes them.                                     *)
(***************************************************************************)
EXTENDS Integers, Sequences, FiniteSets, TLC

(***************************************************************************)
(* Bounds of the model.                                                    *)
(***************************************************************************)
MaxTasks == 2

(***************************************************************************)
(* String primitives.                                                      *)
(***************************************************************************)
Digits == <<"0", "1", "2", "3", "4", "5", "6", "7", "8", "9">>

LowerAlpha == <<"a", "b", "c", "d", "e", "f", "g", "h", "i", "j", "k", "l", "m",
                "n", "o", "p", "q", "r", "s", "t", "u", "v", "w", "x", "y", "z">>

UpperAlpha == <<"A", "B", "C", "D", "E", "F", "G", "H", "I", "J", "K", "L", "M",
                "N", "O", "P", "Q", "R", "S", "T", "U", "V", "W", "X", "Y", "Z">>

Range(s) == {s[i] : i \in DOMAIN s}

DigitChars == Range(Digits)

UpperChars == Range(UpperAlpha)

\* \w of a JavaScript regular expression: [A-Za-z0-9_]
WordChars == Range(LowerAlpha) \cup UpperChars \cup DigitChars \cup {"_"}

IsSpace(c) == c = " "

IsWordChar(c) == c \in WordChars

DigitValue == [c \in DigitChars |-> (CHOOSE i \in DOMAIN Digits : Digits[i] = c) - 1]

LowerOf == [c \in UpperChars |-> LowerAlpha[CHOOSE i \in DOMAIN UpperAlpha : UpperAlpha[i] = c]]

\* String.prototype.toLowerCase, one character
LowerChar(c) == IF c \in UpperChars THEN LowerOf[c] ELSE c

\* String.prototype.toLowerCase
RECURSIVE toLowerCase(_)
toLowerCase(s) ==
    IF s = <<>> THEN <<>>
    ELSE <<LowerChar(Head(s))>> \o toLowerCase(Tail(s))

\* s has the text w at position i
HasAt(s, i, w) ==
    /\ i >= 1
    /\ i + Len(w) - 1 <= Len(s)
    /\ \A k \in 1..Len(w) : s[i + k - 1] = w[k]

\* String.prototype.includes
includes(s, w) == \E i \in 1..(Len(s) + 1) : HasAt(s, i, w)

\* String.prototype.startsWith
startsWith(s, w) == HasAt(s, 1, w)

\* string concatenation with one blank between, a + ' ' + b
JoinBlank(a, b) == a \o <<" ">> \o b

\* String.prototype.split on a class of separator characters: the maximal
\* runs of non-separator characters, in order (empty pieces are dropped by
\* the length filters every caller applies).
RECURSIVE SplitOn(_, _, _, _)
SplitOn(s, i, cur, seps) ==
    IF i > Len(s)
    THEN IF cur = <<>> THEN <<>> ELSE <<cur>>
    ELSE IF s[i] \in seps
         THEN (IF cur = <<>> THEN <<>> ELSE <<cur>>) \o SplitOn(s, i + 1, <<>>, seps)
         ELSE SplitOn(s, i + 1, Append(cur, s[i]), seps)

\* the separator characters of \s and of \W that occur in s
Blanks(s) == {c \in Range(s) : IsSpace(c)}
NonWordChars(s) == {c \in Range(s) : ~IsWordChar(c)}

\* parseInt of a run of decimal digits
RECURSIVE parseInt(_)
parseInt(ds) ==
    IF ds = <<>> THEN 0
    ELSE 10 * parseInt(SubSeq(ds, 1, Len(ds) - 1)) + DigitValue[ds[Len(ds)]]

\* template literal `${n}` of a non-negative integer
RECURSIVE NatToString(_)
NatToString(n) ==
    IF n < 10 THEN <<Digits[n + 1]>>
    ELSE NatToString(n \div 10) \o <<Digits[(n % 10) + 1]>>

\* template literal `${n}` of an integer
NumberToString(n) == IF n < 0 THEN <<"-">> \o NatToString(0 - n) ELSE NatToString(n)

(***************************************************************************)
(* TaskIntelligence.parseTimeToMinutes                                     *)
(*   timeStr.match(/(\d+)\s*(minute|hour|min|hr)/i)                        *)
(***************************************************************************)
UnitMinute == <<"m", "i", "n", "u", "t", "e">>
UnitHour == <<"h", "o", "u", "r">>
UnitMin == <<"m", "i", "n">>
UnitHr == <<"h", "r">>

\* the alternation (minute|hour|min|hr), tried in this order
TimeUnits == <<UnitMinute, UnitHour, UnitMin, UnitHr>>

\* end of the maximal run of characters of class cls that starts at i
\* (i - 1 when s[i] is not of the class)
RECURSIVE RunEnd(_, _, _)
RunEnd(s, i, cls) ==
    IF i <= Len(s) /\ s[i] \in cls THEN RunEnd(s, i + 1, cls) ELSE i - 1

\* the unit matched after the digits that start at i, or <<>> when the
\* pattern does not match at i (lower is the lower-cased text: the /i flag)
UnitAt(lower, i) ==
    LET dEnd == RunEnd(lower, i, DigitChars)
        uPos == RunEnd(lower, dEnd + 1, {" "}) + 1
        hits == {k \in DOMAIN TimeUnits : HasAt(lower, uPos, TimeUnits[k])}
    IN  IF dEnd < i \/ hits = {} THEN <<>>
        ELSE TimeUnits[CHOOSE k \in hits : \A j \in hits : k <= j]

\* the leftmost position at which the pattern matches, 0 when there is none
RECURSIVE FirstMatch(_, _)
FirstMatch(lower, i) ==
    IF i > Len(lower) THEN 0
    ELSE IF lower[i] \in DigitChars /\ UnitAt(lower, i) # <<>> THEN i
    ELSE FirstMatch(lower, i + 1)

parseTimeToMinutes(timeStr) ==
    LET lower == toLowerCase(timeStr)
        i == FirstMatch(lower, 1)
    IN  IF i = 0 THEN 30
        ELSE LET value == parseInt(SubSeq(lower, i, RunEnd(lower, i, DigitChars)))
                 unit == UnitAt(lower, i)
             IN  IF startsWith(unit, UnitHour) \/ startsWith(unit, UnitHr)
                 THEN value * 60
                 ELSE value

(***************************************************************************)
(* Values shared by the operations.                                        *)
(***************************************************************************)
\* JavaScript null / undefined of an object-valued result
null == [type |-> "null"]

\* '' (and undefined) of a string-valued field: both are falsy in `x || d`
EmptyString == <<>>

\* `${n} minutes`
Minutes(n) == NumberToString(n) \o <<" ", "m", "i", "n", "u", "t", "e", "s">>

\* `node_${n}`
NodeId(n) == <<"n", "o", "d", "e", "_">> \o NumberToString(n)

ThirtyMinutes == <<"3", "0", " ", "m", "i", "n", "u", "t", "e", "s">>

BreakthroughAmplification == "breakthrough_amplification"

(***************************************************************************)
(* A JSON object is a record of the fields it has; reading a field it does *)
(* not have gives undefined, which counts as false, as 0 or as no list.    *)
(***************************************************************************)
\* obj[f], or d when the object has no field f
get(obj, f, d) == IF f \in DOMAIN obj THEN obj[f] ELSE d

\* the object with obj[f] = v
put(obj, f, v) == (f :> v) @@ obj

(***************************************************************************)
(* TaskIntelligence: admission (selectOptimalTask, first loop)             *)
(***************************************************************************)
\* new Set(nodes.filter(n => n.completed).map(n => n.id))
completedNodeIds(nodes) ==
    {nodes[i].id : i \in {k \in DOMAIN nodes : get(nodes[k], "completed", FALSE)}}

\* keys of the Map nodesByTitle: the titles of the completed nodes
nodesByTitle(nodes) ==
    {nodes[i].title : i \in {k \in DOMAIN nodes : get(nodes[k], "completed", FALSE)}}

\* prerequisitesMet with the lookups built from all nodes, not only the
\* completed ones
prerequisitesMet_anyNode(node, nodes) ==
    \A k \in DOMAIN get(node, "prerequisites", <<>>) :
        \E j \in DOMAIN nodes :
            nodes[j].id = node.prerequisites[k] \/ nodes[j].title = node.prerequisites[k]

\* the loop over node.prerequisites (an empty or missing list is met)
prerequisitesMet(node, nodes) ==
    \A k \in DOMAIN get(node, "prerequisites", <<>>) :
        \/ node.prerequisites[k] \in completedNodeIds(nodes)
        \/ node.prerequisites[k] \in nodesByTitle(nodes)

\* node.duration || '30 minutes'
durationOrDefault(node) == IF node.duration = EmptyString THEN ThirtyMinutes ELSE node.duration

\* taskMinutes > timeInMinutes * 1.2.  Both sides are integers below 2^31
\* and 1.2 is the double nearest to 6/5; the double product t * 1.2 rounds
\* to 6t/5 exactly whenever that is an integer, so the comparison equals
\* the integer comparison 10 * taskMinutes > 12 * timeInMinutes.
\* tooLong with >= for >: a task of exactly 1.2 x timeAvailable is dropped
tooLong_boundaryExcluded(node, timeAvailable) ==
    LET timeInMinutes == parseTimeToMinutes(timeAvailable)
        taskMinutes == parseTimeToMinutes(durationOrDefault(node))
    IN  taskMinutes * 10 >= timeInMinutes * 12

tooLong(node, timeAvailable) ==
    LET timeInMinutes == parseTimeToMinutes(timeAvailable)
        taskMinutes == parseTimeToMinutes(durationOrDefault(node))
    IN  taskMinutes * 10 > timeInMinutes * 12

\* the body of the filter loop: TRUE when the node is pushed
isAvailable(node, nodes, timeAvailable) ==
    /\ ~get(node, "completed", FALSE)
    /\ prerequisitesMet(node, nodes)
    /\ ~tooLong(node, timeAvailable)

availableTasks(nodes, timeAvailable) ==
    LET Keep(node) == isAvailable(node, nodes, timeAvailable)
    IN  SelectSeq(nodes, Keep)

(***************************************************************************)
(* TaskIntelligence: scoring                                               *)
(***************************************************************************)
Abs(x) == IF x < 0 THEN 0 - x ELSE x

StopWords == {<<"r", "e", "s", "e", "a", "r", "c", "h">>, <<"l", "e", "a", "r", "n", "i", "n", "g">>, <<"s", "t", "u", "d", "y">>, <<"p", "r", "o", "j", "e", "c", "t">>}

taskText(task) == toLowerCase(JoinBlank(task.title, task.description))

isDomainRelevant(task, projectContext) ==
    LET domainText == toLowerCase(JoinBlank(projectContext.goal, projectContext.domain))
        words == SplitOn(domainText, 1, <<>>, {" "})
        domainKeywords == {words[i] : i \in {k \in DOMAIN words :
                              Len(words[k]) > 3 /\ words[k] \notin StopWords}}
    IN  \E keyword \in domainKeywords : includes(taskText(task), keyword)

isContextRelevant(task, context) ==
    LET contextLower == toLowerCase(context)
        words == SplitOn(contextLower, 1, <<>>, NonWordChars(contextLower))
        keywords == {words[i] : i \in {k \in DOMAIN words : Len(words[k]) > 3}}
    IN  \E keyword \in keywords : includes(taskText(task), keyword)

\* timeFit whose second tier ends at 0.9 x the duration
timeFit_ninetyPercent(timeInMinutes, taskDuration) ==
    IF timeInMinutes >= taskDuration THEN 50
    ELSE IF timeInMinutes * 10 >= taskDuration * 9 THEN 20
    ELSE IF timeInMinutes * 10 >= taskDuration * 5 THEN 0 - 20
    ELSE 0 - 100

\* the time-fit tier.  0.8 and 0.5 times an integer duration compare with
\* an integer as the exact fractions 4/5 and 1/2 do.
timeFit(timeInMinutes, taskDuration) ==
    IF timeInMinutes >= taskDuration THEN 50
    ELSE IF timeInMinutes * 10 >= taskDuration * 8 THEN 20
    ELSE IF timeInMinutes * 10 >= taskDuration * 5 THEN 0 - 20
    ELSE 0 - 100

\* task.priority || 200
basePriority(task) == IF task.priority = 0 THEN 200 ELSE task.priority

\* task.difficulty || 3
taskDifficulty(task) == IF task.difficulty = 0 THEN 3 ELSE task.difficulty

\* calculateTaskScore with the energy term 20 x (2 - |energyLevel - difficulty|)
calculateTaskScore_energyOff(task, energyLevel, timeInMinutes, contextFromMemory, projectContext) ==
    basePriority(task)
    + (2 - Abs(energyLevel - taskDifficulty(task))) * 20
    + timeFit(timeInMinutes, parseTimeToMinutes(durationOrDefault(task)))
    + (IF isDomainRelevant(task, projectContext) THEN 100 ELSE 0)
    + (IF contextFromMemory # EmptyString /\ isContextRelevant(task, contextFromMemory)
       THEN 50 ELSE 0)
    + (IF get(task, "opportunityType", "none") = BreakthroughAmplification THEN 100 ELSE 0)
    + (IF get(task, "generated", FALSE) THEN 25 ELSE 0)

calculateTaskScore(task, energyLevel, timeInMinutes, contextFromMemory, projectContext) ==
    basePriority(task)
    + (5 - Abs(energyLevel - taskDifficulty(task))) * 20
    + timeFit(timeInMinutes, parseTimeToMinutes(durationOrDefault(task)))
    + (IF isDomainRelevant(task, projectContext) THEN 100 ELSE 0)
    + (IF contextFromMemory # EmptyString /\ isContextRelevant(task, contextFromMemory)
       THEN 50 ELSE 0)
    + (IF get(task, "opportunityType", "none") = BreakthroughAmplification THEN 100 ELSE 0)
    + (IF get(task, "generated", FALSE) THEN 25 ELSE 0)

\* the scoring loop with score >= bestScore: the last of the best wins
RECURSIVE bestLoop_lastWins(_, _, _, _, _, _, _)
bestLoop_lastWins(tasks, i, bestTask, energyLevel, timeInMinutes, contextFromMemory, projectContext) ==
    IF i > Len(tasks) THEN bestTask
    ELSE LET score == calculateTaskScore(tasks[i], energyLevel, timeInMinutes,
                                         contextFromMemory, projectContext)
             better == bestTask = null \/ score >= bestTask.score
         IN  bestLoop_lastWins(tasks, i + 1,
                      IF better THEN [score |-> score] @@ tasks[i] ELSE bestTask,
                      energyLevel, timeInMinutes, contextFromMemory, projectContext)

\* the scoring loop: bestTask = null and bestScore = -Infinity before the
\* first candidate; a later candidate replaces the best one only when
\* score > bestScore
RECURSIVE bestLoop(_, _, _, _, _, _, _)
bestLoop(tasks, i, bestTask, energyLevel, timeInMinutes, contextFromMemory, projectContext) ==
    IF i > Len(tasks) THEN bestTask
    ELSE LET score == calculateTaskScore(tasks[i], energyLevel, timeInMinutes,
                                         contextFromMemory, projectContext)
             better == bestTask = null \/ score > bestTask.score
         IN  bestLoop(tasks, i + 1,
                      IF better THEN [score |-> score] @@ tasks[i] ELSE bestTask,
                      energyLevel, timeInMinutes, contextFromMemory, projectContext)

selectOptimalTask(htaData, energyLevel, timeAvailable, contextFromMemory, projectContext) ==
    LET nodes == htaData.frontierNodes
        available == availableTasks(nodes, timeAvailable)
    IN  IF Len(available) = 0 THEN null
        ELSE bestLoop(available, 1, null, energyLevel, parseTimeToMinutes(timeAvailable),
                      contextFromMemory, projectContext)

(***************************************************************************)
(* State.                                                                  *)
(*   activeProject  requireActiveProject() succeeds                        *)
(*   config         what loadProjectData(projectId, 'config.json') returns *)
(*   hta            what loadPathHTA(projectId, activePath) returns        *)
(*   errorLog       the operations appended to error.log by logError       *)
(*   call           the request being served (null before any request)     *)
(*   response       the value the operation returned                       *)
(*   builder        the suspended HtaTreeBuilder call: where it awaits the *)
(*                  Oracle and its local variables (null when none runs)   *)
(*   llmLog         the requests made to llm.requestIntelligence, each     *)
(*                  with the answer it got                                 *)
(*   pendingClaudeRequests  the builder's queue of generation requests     *)
(*                  handed back to the client                              *)
(*   ops            the operations on the roadmap document that requests   *)
(*                  have started: each one's position and local variables  *)
(*   heap           the documents parsed into memory, by reference; the    *)
(*                  cache and the operations hold references into it       *)
(*   cache          DataPersistence.cache for hta.json: the reference of   *)
(*                  the cached document, 0 when there is no valid entry    *)
(*   clock          the time, in operations started so far                 *)
(***************************************************************************)
VARIABLES activeProject, config, hta, errorLog, call, response, builder, llmLog,
          pendingClaudeRequests, ops, heap, cache, clock

vars == <<activeProject, config, hta, errorLog, call, response, builder, llmLog,
          pendingClaudeRequests, ops, heap, cache, clock>>

\* the state of the persistence layer and of the operations that use it
persistence == <<ops, heap, cache, clock>>

\* the requests that may be in progress at the same time
Procs == {"a", "b"}

\* the references of the heap
ObjIds == {1, 2, 3}

idle == [kind |-> "idle", pc |-> "done", obj |-> 0]

NoOps == [p \in Procs |-> idle]

EmptyHeap == [i \in ObjIds |-> null]

(***************************************************************************)
(* DataPersistence: loadProjectData and saveProjectData on hta.json.       *)
(*                                                                         *)
(* A document is a record with the fields the JSON object has.  The file   *)
(* on disk is hta (null: no file).  A load that finds a valid cache entry  *)
(* returns the cached object itself; a load that misses reads the file,    *)
(* parses it into a new object and caches that.  A save writes the text of *)
(* the object as it is at that moment and drops the cache entry; a failed  *)
(* save logs the error and leaves file and cache alone.                    *)
(***************************************************************************)
\* the references in use: the cache entry and the operations' documents
refs(c, o) == ({c} \cup {o[p].obj : p \in Procs}) \ {0}

\* a reference not in use
alloc(c, o) == CHOOSE i \in ObjIds : i \notin refs(c, o) /\ \A j \in ObjIds : j < i => j \in refs(c, o)

\* the heap without the objects nothing refers to any more
sweep(h, c, o) == [i \in ObjIds |-> IF i \in refs(c, o) THEN h[i] ELSE null]

\* the document behind a reference; null behind the reference 0
deref(h, ref) == IF ref = 0 THEN null ELSE h[ref]

(***************************************************************************)
(* TaskIntelligence.getNextTask                                            *)
(***************************************************************************)
\* the text of a response, as the name of its template, and the tools the
\* text tells the caller to use
RoadmapHasNoTasks ==
    [text |-> "Roadmap is in place but no actionable tasks were found",
     tools |-> {"generate_hta_tasks", "evolve_strategy"},
     selected_task |-> null]

NoMoreTasksAvailable ==
    [text |-> "No more tasks available in current sequence",
     tools |-> {"evolve_strategy", "build_hta_tree", "generate_daily_schedule"},
     selected_task |-> null]

NextRecommendedTask(selectedTask) ==
    [text |-> "Next Recommended Task",
     tools |-> {"complete_block"},
     selected_task |-> selectedTask]

ErrorGettingNextTask ==
    [text |-> "Error getting next task",
     tools |-> {},
     selected_task |-> null]

\* config.activePath || 'general' and the other fields of projectContext
projectContextOf(cfg) == [goal |-> cfg.goal, domain |-> cfg.domain, activePath |-> cfg.activePath]

\* what loadPathHTA returns at this moment: the cached document, or the
\* document parsed from the file
roadmapLoaded == IF cache # 0 THEN heap[cache] ELSE hta

\* getNextTask that takes a null selection for a failure
getNextTaskResult_nullIsError(contextFromMemory, energyLevel, timeAvailable) ==
    IF ~activeProject \/ config = null
    THEN ErrorGettingNextTask
    ELSE IF roadmapLoaded = null \/ Len(get(roadmapLoaded, "frontierNodes", <<>>)) = 0
    THEN RoadmapHasNoTasks
    ELSE LET selectedTask == selectOptimalTask(roadmapLoaded, energyLevel, timeAvailable,
                                               contextFromMemory, projectContextOf(config))
         IN  IF selectedTask = null
             THEN ErrorGettingNextTask
             ELSE NextRecommendedTask(selectedTask)

getNextTaskResult(contextFromMemory, energyLevel, timeAvailable) ==
    IF ~activeProject \/ config = null
    THEN ErrorGettingNextTask
    ELSE IF roadmapLoaded = null \/ Len(get(roadmapLoaded, "frontierNodes", <<>>)) = 0
    THEN RoadmapHasNoTasks
    ELSE LET selectedTask == selectOptimalTask(roadmapLoaded, energyLevel, timeAvailable,
                                               contextFromMemory, projectContextOf(config))
         IN  IF selectedTask = null
             THEN NoMoreTasksAvailable
             ELSE NextRecommendedTask(selectedTask)

getNextTask(contextFromMemory, energyLevel, timeAvailable) ==
    /\ call = null
    /\ call' = [op |-> "getNextTask", contextFromMemory |-> contextFromMemory,
                energyLevel |-> energyLevel, timeAvailable |-> timeAvailable]
    /\ response' = getNextTaskResult(contextFromMemory, energyLevel, timeAvailable)
    /\ errorLog' = IF ~activeProject \/ config = null
                   THEN Append(errorLog, "getNextTask")
                   ELSE errorLog
    /\ IF activeProject /\ config # null /\ cache = 0 /\ hta # null
       THEN LET r == alloc(0, ops)
            IN  cache' = r /\ heap' = [heap EXCEPT ![r] = hta]
       ELSE UNCHANGED <<heap, cache>>
    /\ UNCHANGED <<activeProject, config, hta, builder, llmLog, pendingClaudeRequests, ops, clock>>

(***************************************************************************)
(* Inputs of the selection model.                                          *)
(***************************************************************************)
GuitarChords == <<"g", "u", "i", "t", "a", "r", " ", "c", "h", "o", "r", "d", "s">>
LearningSongs == <<"l", "e", "a", "r", "n", "i", "n", "g", " ", "s", "o", "n", "g", "s">>
Unknown == <<"z", "z">>

\* title of the task at position i: "A", "B", ...
TitleAt(i) == <<UpperAlpha[i]>>

\* tasks that differ in what admission looks at; node_1 is referred to by
\* id and the second task ("B") by title
PrerequisiteChoices ==
    {<<>>, <<NodeId(1)>>, <<TitleAt(2)>>, <<Unknown>>, <<NodeId(1), TitleAt(2)>>}

AdmissionTasks(i) ==
    {[id |-> NodeId(i), title |-> TitleAt(i), description |-> LearningSongs,
      completed |-> c, prerequisites |-> p, duration |-> Minutes(12),
      difficulty |-> 1, priority |-> 200, opportunityType |-> "none", generated |-> FALSE] :
        c \in BOOLEAN, p \in PrerequisiteChoices}
    \cup
    {[id |-> NodeId(i), title |-> TitleAt(i), description |-> LearningSongs,
      completed |-> FALSE, prerequisites |-> <<>>, duration |-> Minutes(13),
      difficulty |-> 1, priority |-> 200, opportunityType |-> "none", generated |-> FALSE]}

\* tasks that differ in what scoring looks at: relevance to the goal,
\* duration, difficulty; then a priority of 0 with and without the two
\* flags; then a task whose difficulty and duration are missing
ScoringTasks(i) ==
    {[id |-> NodeId(i), title |-> TitleAt(i), description |-> x,
      completed |-> FALSE, prerequisites |-> <<>>, duration |-> d,
      difficulty |-> k, priority |-> 200, opportunityType |-> "none", generated |-> FALSE] :
        x \in {GuitarChords, LearningSongs}, d \in {Minutes(5), Minutes(25)}, k \in {1, 3}}
    \cup
    {[id |-> NodeId(i), title |-> TitleAt(i), description |-> LearningSongs,
      completed |-> FALSE, prerequisites |-> <<>>, duration |-> Minutes(5),
      difficulty |-> 1, priority |-> 0, opportunityType |-> o, generated |-> g] :
        o \in {"none", BreakthroughAmplification}, g \in BOOLEAN}
    \cup
    {[id |-> NodeId(i), title |-> TitleAt(i), description |-> LearningSongs,
      completed |-> FALSE, prerequisites |-> <<>>, duration |-> EmptyString,
      difficulty |-> 0, priority |-> 200, opportunityType |-> "none", generated |-> FALSE]}

\* the sequences of n tasks whose i-th task is taken from Pool(i)
RECURSIVE SeqsOf(_, _)
SeqsOf(Pool(_), n) ==
    IF n = 0 THEN {<<>>}
    ELSE {Append(r, t) : r \in SeqsOf(Pool, n - 1), t \in Pool(n)}

Roadmaps ==
    UNION {SeqsOf(AdmissionTasks, n) \cup SeqsOf(ScoringTasks, n) : n \in 0..MaxTasks}

ProjectConfig ==
    [goal |-> <<"L", "e", "a", "r", "n", "i", "n", "g", " ", "G", "u", "i", "t", "a", "r">>, domain |-> <<"m", "u", "s", "i", "c">>, activePath |-> "general"]

TimeChoices == {Minutes(10), ThirtyMinutes, <<"1", " ", "h", "o", "u", "r">>, <<"s", "o", "o", "n">>}

ContextChoices == {EmptyString, <<"C", "h", "o", "r", "d", "s", " ", "p", "r", "a", "c", "t", "i", "c", "e">>}

EnergyLevels == {1, 3, 5}

InitSelect ==
    /\ \/ /\ activeProject = TRUE
          /\ config = ProjectConfig
          /\ \/ hta = null
             \/ \E nodes \in Roadmaps : hta = [frontierNodes |-> nodes]
       \/ /\ activeProject \in BOOLEAN
          /\ config = null
          /\ hta = null
       \/ /\ activeProject = FALSE
          /\ config = ProjectConfig
          /\ hta = null
    /\ errorLog = <<>>
    /\ call = null
    /\ response = null
    /\ builder = null
    /\ llmLog = <<>>
    /\ pendingClaudeRequests = <<>>
    /\ ops = NoOps
    /\ heap = EmptyHeap
    /\ cache = 0
    /\ clock = 0

NextSelect ==
    \E contextFromMemory \in ContextChoices, energyLevel \in EnergyLevels,
       timeAvailable \in TimeChoices :
        getNextTask(contextFromMemory, energyLevel, timeAvailable)

SpecSelect == InitSelect /\ [][NextSelect]_vars

(***************************************************************************)
(* Properties of task selection.                                           *)
(***************************************************************************)
\* a getNextTask request has been served and it returned a task
TaskReturned == call # null /\ response.selected_task # null

\* a getNextTask request has been served and selectOptimalTask was reached
SelectReached ==
    /\ call # null
    /\ activeProject /\ config # null
    /\ hta # null /\ Len(hta.frontierNodes) > 0

\* the reference names, by id or by title, a completed task of the roadmap
ResolvesToCompleted(nodes, ref) ==
    \E j \in DOMAIN nodes : nodes[j].completed /\ (nodes[j].id = ref \/ nodes[j].title = ref)

\* the duration of a task in minutes, 30 when the task carries none
DurationMinutes(node) ==
    IF node.duration = EmptyString THEN 30 ELSE parseTimeToMinutes(node.duration)

\* the three admission rules of the selector, for the request served
PassesAdmission(nodes, i) ==
    /\ ~nodes[i].completed
    /\ \A k \in DOMAIN nodes[i].prerequisites :
           ResolvesToCompleted(nodes, nodes[i].prerequisites[k])
    /\ DurationMinutes(nodes[i]) * 10 <= parseTimeToMinutes(call.timeAvailable) * 12

\* C1: a returned task is an uncompleted task of the roadmap, and every one
\* of its prerequisite references is the id or the title of a completed
\* task; a task with a reference to an uncompleted or absent task is never
\* returned.
C1_AdmissionByPrerequisites ==
    TaskReturned =>
        LET t == response.selected_task
            nodes == hta.frontierNodes
        IN  /\ ~t.completed
            /\ \E i \in DOMAIN nodes : nodes[i].id = t.id /\ ~nodes[i].completed
            /\ \A k \in DOMAIN t.prerequisites : ResolvesToCompleted(nodes, t.prerequisites[k])

\* a task was returned whose prerequisite names a completed task by its
\* title, while the roadmap also holds a task with unmet prerequisites
C1_Witness ==
    /\ TaskReturned
    /\ response.selected_task.prerequisites = <<TitleAt(2)>>
    /\ hta.frontierNodes[2].completed
    /\ hta.frontierNodes[2].prerequisites = <<Unknown>>

\* C2: a returned task lasts at most 1.2 x timeAvailable, and a task at the
\* boundary is admitted: with an uncompleted task whose prerequisites are
\* met and whose duration is at most 1.2 x timeAvailable (12 minutes for 10)
\* in the roadmap, a task is returned.
C2_HardTimeCutoff ==
    SelectReached =>
        LET nodes == hta.frontierNodes
            timeInMinutes == parseTimeToMinutes(call.timeAvailable)
        IN  /\ response.selected_task # null =>
                   DurationMinutes(response.selected_task) * 10 <= timeInMinutes * 12
            /\ (\E i \in DOMAIN nodes : PassesAdmission(nodes, i)) =>
                   response.selected_task # null
            /\ (call.timeAvailable = Minutes(10) /\ response.selected_task # null) =>
                   response.selected_task.duration # Minutes(13)

\* with 10 minutes available a 12-minute task was returned although the
\* roadmap also holds an uncompleted 13-minute task without prerequisites
C2_Witness ==
    /\ TaskReturned
    /\ call.timeAvailable = Minutes(10)
    /\ response.selected_task.duration = Minutes(12)
    /\ \E i \in DOMAIN hta.frontierNodes :
           /\ hta.frontierNodes[i].duration = Minutes(13)
           /\ ~hta.frontierNodes[i].completed
           /\ hta.frontierNodes[i].prerequisites = <<>>

\* the score of a task for the request served
ScoreServed(task) ==
    calculateTaskScore(task, call.energyLevel, parseTimeToMinutes(call.timeAvailable),
                       call.contextFromMemory, projectContextOf(config))

\* C3: the returned task is the admitted candidate with the greatest score
\* and, among the candidates with that score, the first of the roadmap.
C3_GreatestScoreFirstWins ==
    TaskReturned =>
        LET cands == availableTasks(hta.frontierNodes, call.timeAvailable)
            t == response.selected_task
        IN  \E i \in DOMAIN cands :
                /\ cands[i].id = t.id
                /\ t.score = ScoreServed(cands[i])
                /\ \A j \in DOMAIN cands : ScoreServed(cands[j]) <= t.score
                /\ \A j \in 1..(i - 1) : ScoreServed(cands[j]) < t.score

\* two candidates share the greatest score and the first one was returned
C3_Witness ==
    /\ TaskReturned
    /\ LET cands == availableTasks(hta.frontierNodes, call.timeAvailable)
       IN  \E i, j \in DOMAIN cands :
               /\ i < j
               /\ cands[i].id = response.selected_task.id
               /\ ScoreServed(cands[j]) = response.selected_task.score

\* the time-fit term as the scoring table states it
TimeFitTerm(timeInMinutes, duration) ==
    IF duration <= timeInMinutes THEN 50
    ELSE IF timeInMinutes * 5 >= duration * 4 THEN 20
    ELSE IF timeInMinutes * 2 >= duration THEN 0 - 20
    ELSE 0 - 100

\* C4: the score is task.priority + 20 x (5 - |energyLevel - difficulty|)
\* + timeFit + 100 if domain-relevant + 50 if context-relevant + 100 if
\* tagged breakthrough + 25 if generated, for every priority, 0 included.
C4_ScoreIsSumOfTerms ==
    (TaskReturned /\ response.selected_task.difficulty \in 1..5) =>
        LET t == response.selected_task
            projectContext == projectContextOf(config)
        IN  t.score =
                t.priority
                + 20 * (5 - Abs(call.energyLevel - t.difficulty))
                + TimeFitTerm(parseTimeToMinutes(call.timeAvailable), DurationMinutes(t))
                + (IF isDomainRelevant(t, projectContext) THEN 100 ELSE 0)
                + (IF isContextRelevant(t, call.contextFromMemory) THEN 50 ELSE 0)
                + (IF t.opportunityType = BreakthroughAmplification THEN 100 ELSE 0)
                + (IF t.generated THEN 25 ELSE 0)

\* the two tasks of the scenario
IsTaskA(t) ==
    /\ t.difficulty = 3 /\ t.duration = Minutes(25) /\ t.priority = 200
    /\ t.description = GuitarChords
    /\ t.opportunityType = "none" /\ ~t.generated

IsTaskB(t) ==
    /\ t.difficulty = 1 /\ t.duration = Minutes(5) /\ t.priority = 200
    /\ t.description = LearningSongs
    /\ t.opportunityType = "none" /\ ~t.generated

\* energyLevel 3, 30 minutes, no context, and the roadmap is TaskA and TaskB
ScenarioServed ==
    /\ SelectReached
    /\ call.energyLevel = 3
    /\ call.timeAvailable = ThirtyMinutes
    /\ call.contextFromMemory = EmptyString
    /\ Len(hta.frontierNodes) = 2
    /\ \E i, j \in 1..2 : IsTaskA(hta.frontierNodes[i]) /\ IsTaskB(hta.frontierNodes[j])

\* the scores the scenario computes for TaskA and TaskB, and the returned task
ScenarioScores(scoreA, scoreB) ==
    ScenarioServed =>
        /\ \A i \in 1..2 :
               /\ IsTaskA(hta.frontierNodes[i]) => ScoreServed(hta.frontierNodes[i]) = scoreA
               /\ IsTaskB(hta.frontierNodes[i]) => ScoreServed(hta.frontierNodes[i]) = scoreB
        /\ response.selected_task # null
        /\ IsTaskA(response.selected_task)
        /\ response.selected_task.score = scoreA

\* C5 as stated: in the scenario TaskA scores 390 and TaskB 310, and TaskA
\* is returned.
C5_ScenarioAsStated == ScenarioScores(390, 310)

\* C5 amended: in the scenario TaskA scores 450 (200 + 100 + 50 + 100) and
\* TaskB 310, and TaskA is returned.
C5_ScenarioScores == ScenarioScores(450, 310)

\* the scenario was served with TaskB first in the roadmap
C5_Witness ==
    /\ ScenarioServed
    /\ IsTaskB(hta.frontierNodes[1])
    /\ response.selected_task # null

\* C6: selectOptimalTask returns null exactly when no task of the roadmap
\* passes the admission filter, and getNextTask then answers with a result
\* that is no error and names evolve_strategy or build_hta_tree.
C6_NoneIsNotAnError ==
    SelectReached =>
        LET nodes == hta.frontierNodes
            nonePasses == \A i \in DOMAIN nodes : ~PassesAdmission(nodes, i)
        IN  /\ response.selected_task = null <=> nonePasses
            /\ nonePasses =>
                   /\ response # ErrorGettingNextTask
                   /\ response.tools \cap {"evolve_strategy", "build_hta_tree"} # {}
                   /\ errorLog = <<>>

\* a roadmap with tasks none of which is admissible was served
C6_Witness ==
    /\ SelectReached
    /\ response = NoMoreTasksAvailable
    /\ \E i \in DOMAIN hta.frontierNodes : ~hta.frontierNodes[i].completed

(***************************************************************************)
(* String operations of HtaTreeBuilder.                                    *)
(***************************************************************************)
UpperOf == [c \in Range(LowerAlpha) |-> UpperAlpha[CHOOSE i \in DOMAIN LowerAlpha : LowerAlpha[i] = c]]

\* s.charAt(0).toUpperCase() + s.slice(1)
capitalize(s) ==
    IF s = <<>> THEN <<>>
    ELSE <<IF Head(s) \in DOMAIN UpperOf THEN UpperOf[Head(s)] ELSE Head(s)>> \o Tail(s)

\* String.prototype.trim
RECURSIVE trim(_)
trim(s) ==
    IF s = <<>> THEN s
    ELSE IF IsSpace(Head(s)) THEN trim(Tail(s))
    ELSE IF IsSpace(s[Len(s)]) THEN trim(SubSeq(s, 1, Len(s) - 1))
    ELSE s

\* [a-z0-9]
SlugChars == Range(LowerAlpha) \cup DigitChars

\* s.replace(/[^keep]+/g, '_'): every maximal run of characters outside
\* keep becomes one underscore (inRun: the previous character was replaced)
RECURSIVE replaceRuns(_, _, _)
replaceRuns(s, keep, inRun) ==
    IF s = <<>> THEN <<>>
    ELSE IF Head(s) \in keep THEN <<Head(s)>> \o replaceRuns(Tail(s), keep, FALSE)
    ELSE IF inRun THEN replaceRuns(Tail(s), keep, TRUE)
    ELSE <<"_">> \o replaceRuns(Tail(s), keep, TRUE)

\* s.replace(/_+/g, '_')
RECURSIVE collapseUnderscores(_)
collapseUnderscores(s) ==
    IF Len(s) < 2 THEN s
    ELSE IF s[1] = "_" /\ s[2] = "_" THEN collapseUnderscores(Tail(s))
    ELSE <<Head(s)>> \o collapseUnderscores(Tail(s))

\* s.replace(/^_|_$/g, '')
stripEdgeUnderscores(s) ==
    LET a == IF s # <<>> /\ Head(s) = "_" THEN Tail(s) ELSE s
    IN  IF a # <<>> /\ a[Len(a)] = "_" THEN SubSeq(a, 1, Len(a) - 1) ELSE a

\* title.toLowerCase().replace(/[^a-z0-9]+/g, '_')
slugBody(title) == replaceRuns(toLowerCase(title), SlugChars, FALSE)

\* `focus_${slugBody(area)}`.replace(/_+/g, '_').replace(/^_|_$/g, '')
focusId(area) ==
    stripEdgeUnderscores(collapseUnderscores(<<"f", "o", "c", "u", "s", "_">> \o slugBody(area)))

\* `domain_${idx + 1}`
domainId(n) == <<"d", "o", "m", "a", "i", "n", "_">> \o NumberToString(n)

\* `${slugBody(domainTitle)}_sub_${idx + 1}`.replace(/_+/g, '_')
subBranchId(domainTitle, n) ==
    collapseUnderscores(slugBody(domainTitle) \o <<"_", "s", "u", "b", "_">> \o NumberToString(n))

(***************************************************************************)
(* HtaTreeBuilder.estimateDuration                                         *)
(***************************************************************************)
estimateDuration(knowledgeLevel) ==
    IF knowledgeLevel <= 2 THEN "0-3 months"
    ELSE IF knowledgeLevel <= 4 THEN "2-6 months"
    ELSE IF knowledgeLevel <= 6 THEN "4-9 months"
    ELSE "6-12+ months"

(***************************************************************************)
(* The answers of llm.requestIntelligence.                                 *)
(*   threw     the call rejected                                           *)
(*   null      the call returned null                                      *)
(*   deferred  the answer has request_for_claude                           *)
(*   invalid   the answer's text is not JSON: JSON.parse throws            *)
(*   value     the answer's text is JSON that is no array                  *)
(*   array     the answer's text is a JSON array, items its elements (an   *)
(*             answer without completion, answer and text reads as '[]')   *)
(***************************************************************************)
Threw == [kind |-> "threw"]
NullAnswer == [kind |-> "null"]
Deferred == [kind |-> "deferred"]
InvalidJson == [kind |-> "invalid"]
NotAnArray == [kind |-> "value"]
ArrayAnswer(items) == [kind |-> "array", items |-> items]

(***************************************************************************)
(* HtaTreeBuilder.generateSubBranches, given the Oracle's answer           *)
(***************************************************************************)
SubDomainOf == <<"S", "u", "b", "-", "d", "o", "m", "a", "i", "n", " ", "o", "f", " ">>

\* the sub-branches built from a parsed, non-empty array: parsed.slice(0, 3)
subBranchesOfArray(domainTitle, parsed) ==
    [idx \in 1..(IF Len(parsed) < 3 THEN Len(parsed) ELSE 3) |->
        [id |-> subBranchId(domainTitle, idx),
         title |-> parsed[idx],
         description |-> SubDomainOf \o domainTitle \o <<":", " ">> \o parsed[idx]]]

\* heuristic fallback: the first two words of the title longer than 3
heuristicSubBranches(domainTitle) ==
    LET all == SplitOn(domainTitle, 1, <<>>, Blanks(domainTitle))
        Long(w) == Len(w) > 3
        words == SelectSeq(all, Long)
    IN  IF Len(words) >= 2
        THEN [idx \in 1..2 |->
                 [id |-> subBranchId(domainTitle, idx),
                  title |-> capitalize(words[idx]),
                  description |-> SubDomainOf \o domainTitle \o <<":", " ">> \o words[idx]]]
        ELSE <<>>

generateSubBranches(domainTitle, resp) ==
    IF resp.kind = "array" /\ Len(resp.items) > 0
    THEN subBranchesOfArray(domainTitle, resp.items)
    ELSE heuristicSubBranches(domainTitle)

(***************************************************************************)
(* HtaTreeBuilder.generateStrategicBranches                                *)
(***************************************************************************)
\* focus areas that count only from the second entry on
useFocusAreas_needsTwo(focusAreas) == Len(focusAreas) > 1

\* Array.isArray(focusAreas) && focusAreas.length > 0
useFocusAreas(focusAreas) == Len(focusAreas) > 0

RoadmapForExpertiseIn == <<"R", "o", "a", "d", "m", "a", "p", " ", "f", "o", "r", " ", "d", "e", "v", "e", "l", "o", "p", "i", "n", "g", " ", "e", "x", "p", "e", "r", "t", "i", "s", "e", " ", "i", "n", " ">>

RoadmapFor == <<"R", "o", "a", "d", "m", "a", "p", " ", "f", "o", "r", " ">>

customBranches(focusAreas, knowledgeLevel) ==
    [i \in DOMAIN focusAreas |->
        LET area == trim(focusAreas[i])
        IN  [id |-> focusId(area),
             title |-> capitalize(area),
             priority |-> "high",
             completed |-> FALSE,
             description |-> RoadmapForExpertiseIn \o area,
             expected_duration |-> estimateDuration(knowledgeLevel),
             subBranches |-> <<>>]]

General == <<"G", "e", "n", "e", "r", "a", "l">>

\* the domains read from the answer to the domain request
domainsOf(aiResp) ==
    IF aiResp.kind = "array" /\ Len(aiResp.items) > 0 THEN aiResp.items ELSE <<General>>

domainBranches(domains, knowledgeLevel) ==
    [idx \in DOMAIN domains |->
        [id |-> domainId(idx),
         title |-> domains[idx],
         priority |-> "high",
         completed |-> FALSE,
         description |-> RoadmapFor \o domains[idx],
         expected_duration |-> estimateDuration(knowledgeLevel),
         subBranches |-> <<>>]]

\* an enrichment whose failure empties the sub-branches of the other branches
enrichBranch_failureClearsAll(branches, idx, resp) ==
    IF resp.kind = "array" /\ Len(resp.items) > 0
    THEN [branches EXCEPT ![idx].subBranches = generateSubBranches(branches[idx].title, resp)]
    ELSE [i \in DOMAIN branches |->
             [branches[i] EXCEPT !.subBranches =
                 IF i = idx THEN generateSubBranches(branches[i].title, resp) ELSE <<>>]]

\* one pass of either enrichment loop: branch.subBranches = await
\* generateSubBranches(branch.title, knowledgeLevel)
enrichBranch(branches, idx, resp) ==
    [branches EXCEPT ![idx].subBranches = generateSubBranches(branches[idx].title, resp)]

\* a request to the Oracle that has no answer yet
Pending == [kind |-> "pending"]

request(type) == [type |-> type, resp |-> Pending]

\* the last request of the log gets its answer
answered(log, resp) == [log EXCEPT ![Len(log)].resp = resp]

\* the result of a builder call: the value returned, or the exception
Returned(value) == [kind |-> "returned", value |-> value]
Thrown == [kind |-> "thrown"]

\* entry, up to the first await: either the focus areas become the branches
\* and the first enrichment request is sent, or the domain request is sent
generateStrategicBranches(goal, focusAreas, knowledgeLevel) ==
    /\ call = null
    /\ call' = [op |-> "generateStrategicBranches", goal |-> goal,
                focusAreas |-> focusAreas, knowledgeLevel |-> knowledgeLevel]
    /\ IF useFocusAreas(focusAreas)
       THEN /\ builder' = [pc |-> "subdomains",
                           branches |-> customBranches(focusAreas, knowledgeLevel),
                           idx |-> 1]
            /\ llmLog' = Append(llmLog, request("hta-subdomain-generation"))
       ELSE /\ builder' = [pc |-> "domains", branches |-> <<>>, idx |-> 0]
            /\ llmLog' = Append(llmLog, request("hta-domain-generation"))
    /\ UNCHANGED <<activeProject, config, hta, errorLog, response, pendingClaudeRequests>>
    /\ UNCHANGED persistence

\* the domain request is answered: a rejected call leaves the method with
\* the exception; any other answer yields the branches, and the first
\* enrichment request is sent
domainsAnswered(aiResp) ==
    /\ builder # null
    /\ builder.pc = "domains"
    /\ IF aiResp = Threw
       THEN /\ response' = Thrown
            /\ builder' = null
            /\ llmLog' = answered(llmLog, aiResp)
       ELSE /\ builder' = [pc |-> "subdomains",
                           branches |-> domainBranches(domainsOf(aiResp), call.knowledgeLevel),
                           idx |-> 1]
            /\ llmLog' = Append(answered(llmLog, aiResp), request("hta-subdomain-generation"))
            /\ UNCHANGED response
    /\ UNCHANGED <<activeProject, config, hta, errorLog, call, pendingClaudeRequests>>
    /\ UNCHANGED persistence

\* an enrichment request is answered: the branch gets its sub-branches;
\* then the next request is sent or the branches are returned
subdomainsAnswered(resp) ==
    /\ builder # null
    /\ builder.pc = "subdomains"
    /\ LET branches == enrichBranch(builder.branches, builder.idx, resp)
       IN  IF builder.idx < Len(branches)
           THEN /\ builder' = [builder EXCEPT !.branches = branches, !.idx = builder.idx + 1]
                /\ llmLog' = Append(answered(llmLog, resp), request("hta-subdomain-generation"))
                /\ UNCHANGED response
           ELSE /\ builder' = null
                /\ llmLog' = answered(llmLog, resp)
                /\ response' = Returned(branches)
    /\ UNCHANGED <<activeProject, config, hta, errorLog, call, pendingClaudeRequests>>
    /\ UNCHANGED persistence

(***************************************************************************)
(* Inputs of the decomposition model.                                      *)
(***************************************************************************)
MaxBranches == 2

LearnGuitar == <<"L", "e", "a", "r", "n", " ", "G", "u", "i", "t", "a", "r">>

FocusChoices == {<<"j", "a", "z", "z", " ", "p", "i", "a", "n", "o">>, <<" ", "C", "+", "+", " ">>, <<"m", "u", "s", "i", "c", " ", "t", "h", "e", "o", "r", "y", " ", "b", "a", "s", "i", "c", "s">>}

DomainChoices == {<<"C", "o", "r", "e", " ", "G", "r", "a", "m", "m", "a", "r">>, <<"G", "o">>}

SubDomainAnswers ==
    {<<<<"N", "o", "u", "n", "s">>>>,
     <<<<"N", "o", "u", "n", "s">>, <<"V", "e", "r", "b", "s">>, <<"T", "e", "n", "s", "e">>, <<"M", "o", "o", "d">>>>}

\* the sequences over set of length lo..hi
SeqsBetween(set, lo, hi) == UNION {[1..n -> set] : n \in lo..hi}

FailedAnswers == {Threw, NullAnswer, Deferred, InvalidJson, NotAnArray, ArrayAnswer(<<>>)}

DomainAnswerChoices ==
    FailedAnswers \cup {ArrayAnswer(d) : d \in SeqsBetween(DomainChoices, 1, MaxBranches)}

SubDomainAnswerChoices == FailedAnswers \cup {ArrayAnswer(a) : a \in SubDomainAnswers}

KnowledgeLevels == {1, 5}

InitDecompose ==
    /\ activeProject = TRUE
    /\ config = null
    /\ hta = null
    /\ errorLog = <<>>
    /\ call = null
    /\ response = null
    /\ builder = null
    /\ llmLog = <<>>
    /\ pendingClaudeRequests = <<>>
    /\ ops = NoOps
    /\ heap = EmptyHeap
    /\ cache = 0
    /\ clock = 0

NextDecompose ==
    \/ \E focusAreas \in SeqsBetween(FocusChoices, 0, MaxBranches),
          knowledgeLevel \in KnowledgeLevels :
           generateStrategicBranches(LearnGuitar, focusAreas, knowledgeLevel)
    \/ \E aiResp \in DomainAnswerChoices : domainsAnswered(aiResp)
    \/ \E resp \in SubDomainAnswerChoices : subdomainsAnswered(resp)

SpecDecompose == InitDecompose /\ [][NextDecompose]_vars

(***************************************************************************)
(* Properties of the decomposition.                                        *)
(***************************************************************************)
\* generateStrategicBranches has been called and has finished
DecomposeFinished ==
    call # null /\ call.op = "generateStrategicBranches" /\ builder = null

DecomposeReturned == DecomposeFinished /\ response.kind = "returned"

\* C7: whatever the focus areas and whatever the Oracle does with the domain
\* request, generateStrategicBranches returns a non-empty sequence of
\* branches.
C7_AlwaysAtLeastOneBranch ==
    DecomposeFinished => (response.kind = "returned" /\ Len(response.value) >= 1)

\* every outcome of the domain request but a rejected call does end in a
\* non-empty sequence of branches
C7_BranchesUnlessDomainCallRejects ==
    DecomposeFinished =>
        \/ response.kind = "returned" /\ Len(response.value) >= 1
        \/ /\ response.kind = "thrown"
           /\ llmLog = <<[type |-> "hta-domain-generation", resp |-> Threw]>>

\* C8: with a non-empty list of focus areas, the branches returned are the
\* entries of the list, one branch per entry and in the order given, and no
\* request to the Oracle asks for domains: all of them ask for sub-domains.
C8_FocusAreasOverride ==
    (call # null /\ call.op = "generateStrategicBranches" /\ Len(call.focusAreas) > 0) =>
        /\ \A i \in DOMAIN llmLog : llmLog[i].type = "hta-subdomain-generation"
        /\ builder = null =>
            /\ response.kind = "returned"
            /\ Len(response.value) = Len(call.focusAreas)
            /\ \A i \in DOMAIN call.focusAreas :
                   response.value[i].title = capitalize(trim(call.focusAreas[i]))

\* two different focus areas became two branches, and the Oracle was asked
\* twice
C8_Witness ==
    /\ DecomposeReturned
    /\ Len(call.focusAreas) = 2
    /\ call.focusAreas[1] # call.focusAreas[2]
    /\ Len(response.value) = 2
    /\ response.value[1].title # response.value[2].title
    /\ Len(llmLog) = 2

\* the requests for sub-domains, in the order made: the i-th is the
\* enrichment of the i-th branch
EnrichmentRequests ==
    LET IsEnrichment(r) == r.type = "hta-subdomain-generation"
    IN  SelectSeq(llmLog, IsEnrichment)

EnrichmentFailed(resp) == resp.kind \in {"deferred", "invalid", "threw"}

EnrichmentProduced(resp) == resp.kind = "array" /\ Len(resp.items) > 0

TitlesOf(subBranches) == [j \in DOMAIN subBranches |-> subBranches[j].title]

undefined == [type |-> "undefined"]
Number(n) == [type |-> "number", value |-> n]
String(s) == [type |-> "string", text |-> s]

\* x || d, for a number or a missing value x: 0 and undefined are falsy
numberOr(x, d) == IF x.type = "number" /\ x.value # 0 THEN x.value ELSE d

min(a, b) == IF a < b THEN a ELSE b
max(a, b) == IF a > b THEN a ELSE b

\* a fallback that makes a task of a template
generateFallbackTasks_template ==
    <<[title |-> <<"P", "r", "a", "c", "t", "i", "c", "e">>,
       description |-> <<"P", "r", "a", "c", "t", "i", "c", "e">>,
       difficulty |-> Number(1), duration |-> Number(15), prerequisites |-> <<>>]>>

\* generateFallbackTasks: the fallback is disabled
generateFallbackTasks == <<>>

\* the candidate tasks read from the answer: the parsed array, or the
\* fallback tasks when the answer is deferred, null, no JSON, no array or
\* an empty array

tasksOf(aiResponse) ==
    IF aiResponse.kind = "array" /\ Len(aiResponse.items) > 0
    THEN aiResponse.items
    ELSE generateFallbackTasks

\* the post-processing of one candidate for the learner's level
clampToLevel(t, knowledgeLevel) ==
    LET capped(limit) == IF t.duration.type = "number"
                         THEN Number(min(limit, t.duration.value))
                         ELSE t.duration
    IN  IF knowledgeLevel <= 2
        THEN [t EXCEPT !.difficulty = Number(1), !.duration = capped(25)]
        ELSE IF knowledgeLevel <= 4
        THEN [t EXCEPT !.difficulty = Number(min(2, max(1, numberOr(t.difficulty, 1)))),
                       !.duration = capped(45)]
        ELSE IF knowledgeLevel <= 6
        THEN [t EXCEPT !.difficulty = Number(min(3, max(1, numberOr(t.difficulty, 2)))),
                       !.duration = capped(60)]
        ELSE [t EXCEPT !.difficulty = Number(min(5, max(1, numberOr(t.difficulty, 3))))]

\* typeof t.duration === 'number' ? `${t.duration} minutes` : (t.duration || '30 minutes')
nodeDuration(duration) ==
    IF duration.type = "number" THEN Minutes(duration.value)
    ELSE IF duration.type = "string" /\ duration.text # EmptyString THEN duration.text
    ELSE ThirtyMinutes

\* the node made of the i-th remaining candidate (i counts from 0)
toNode(t, i, branch, startNodeId) ==
    [id |-> NodeId(startNodeId + i),
     title |-> t.title,
     description |-> t.description,
     branch |-> branch.id,
     difficulty |-> numberOr(t.difficulty, 1),
     priority |-> 200 + numberOr(t.difficulty, 1) * 10,
     duration |-> nodeDuration(t.duration),
     prerequisites |-> t.prerequisites,
     completed |-> FALSE]

\* the nodes without the filter on the titles of completed tasks
branchNodes_keepsCompleted(aiResponse, branch, knowledgeLevel, completedTasks, startNodeId) ==
    LET kept == tasksOf(aiResponse)
        filtered == [k \in DOMAIN kept |-> clampToLevel(kept[k], knowledgeLevel)]
    IN  [k \in DOMAIN filtered |-> toNode(filtered[k], k - 1, branch, startNodeId)]

\* the nodes generateBranchNodesAI returns for an answer of the Oracle
branchNodes(aiResponse, branch, knowledgeLevel, completedTasks, startNodeId) ==
    LET NotCompleted(t) == \A k \in DOMAIN completedTasks : completedTasks[k] # t.title
        kept == SelectSeq(tasksOf(aiResponse), NotCompleted)
        filtered == [k \in DOMAIN kept |-> clampToLevel(kept[k], knowledgeLevel)]
    IN  [k \in DOMAIN filtered |-> toNode(filtered[k], k - 1, branch, startNodeId)]

\* entry, up to the await: the request for tasks is sent
generateBranchNodesAI(branch, knowledgeLevel, completedTasks, startNodeId) ==
    /\ call = null
    /\ call' = [op |-> "generateBranchNodesAI", branch |-> branch,
                knowledgeLevel |-> knowledgeLevel, completedTasks |-> completedTasks,
                startNodeId |-> startNodeId]
    /\ builder' = [pc |-> "tasks", branches |-> <<>>, idx |-> 0]
    /\ llmLog' = Append(llmLog, request("hta-task-generation"))
    /\ UNCHANGED <<activeProject, config, hta, errorLog, response, pendingClaudeRequests>>
    /\ UNCHANGED persistence

\* the request for tasks is answered: a rejected call leaves the method
\* with the exception, a deferred answer queues a request for the client,
\* and the nodes made of the answer are returned; the prompt queued is
\* represented by the branch title and the level it is built from
tasksAnswered(aiResponse) ==
    /\ builder # null
    /\ builder.pc = "tasks"
    /\ builder' = null
    /\ llmLog' = answered(llmLog, aiResponse)
    /\ response' = IF aiResponse = Threw
                   THEN Thrown
                   ELSE Returned(branchNodes(aiResponse, call.branch, call.knowledgeLevel,
                                             call.completedTasks, call.startNodeId))
    /\ pendingClaudeRequests' =
           IF aiResponse = Deferred
           THEN Append(pendingClaudeRequests,
                       [claude_request |-> [goal |-> call.branch.title,
                                            knowledgeLevel |-> call.knowledgeLevel],
                        type |-> "tasks",
                        context |-> [branchId |-> call.branch.id, pathName |-> call.branch.title]])
           ELSE pendingClaudeRequests
    /\ UNCHANGED <<activeProject, config, hta, errorLog, call>>
    /\ UNCHANGED persistence

(***************************************************************************)
(* Inputs of the generation model.                                         *)
(***************************************************************************)
MaxCandidates == 2

HoldGuitar == <<"H", "o", "l", "d", " ", "g", "u", "i", "t", "a", "r">>

TuneStrings == <<"T", "u", "n", "e", " ", "s", "t", "r", "i", "n", "g", "s">>

TwoHours == <<"1", "2", "0", " ", "m", "i", "n", "u", "t", "e", "s">>

DifficultyChoices == {undefined, Number(0), Number(0 - 2), Number(3), Number(9)}

DurationChoices == {undefined, Number(15), Number(120), String(TwoHours), String(EmptyString)}

\* the candidates the Oracle may propose: every difficulty with every
\* duration under one title, and one candidate under a second title
CandidateTasks ==
    {[title |-> HoldGuitar, description |-> HoldGuitar, difficulty |-> d,
      duration |-> u, prerequisites |-> <<>>] :
        d \in DifficultyChoices, u \in DurationChoices}
    \cup {[title |-> TuneStrings, description |-> TuneStrings, difficulty |-> Number(5),
           duration |-> Number(40), prerequisites |-> <<HoldGuitar>>]}

TaskAnswerChoices ==
    FailedAnswers \cup {ArrayAnswer(ts) : ts \in SeqsBetween(CandidateTasks, 1, MaxCandidates)}

AllKnowledgeLevels == 1..10

InitGenerate ==
    /\ activeProject = TRUE
    /\ config = null
    /\ hta = null
    /\ errorLog = <<>>
    /\ call = null
    /\ response = null
    /\ builder = null
    /\ llmLog = <<>>
    /\ pendingClaudeRequests = <<>>
    /\ ops = NoOps
    /\ heap = EmptyHeap
    /\ cache = 0
    /\ clock = 0

NextGenerate ==
    \/ \E knowledgeLevel \in AllKnowledgeLevels,
          completedTasks \in {<<>>, <<TuneStrings>>},
          startNodeId \in {1, 4} :
           generateBranchNodesAI(domainBranches(<<General>>, knowledgeLevel)[1],
                                 knowledgeLevel, completedTasks, startNodeId)
    \/ \E aiResponse \in TaskAnswerChoices : tasksAnswered(aiResponse)

SpecGenerate == InitGenerate /\ [][NextGenerate]_vars

\* Regeneration over an existing roadmap.  The Oracle proposes tasks under
\* the two titles, with and without a difficulty; none, one or both of the
\* titles are those of completed tasks.
RegenerationTasks ==
    {t \in CandidateTasks :
        \/ t.title = TuneStrings
        \/ t.difficulty \in {undefined, Number(3)} /\ t.duration = Number(15)}

RegenerationAnswers ==
    FailedAnswers \cup {ArrayAnswer(ts) : ts \in SeqsBetween(RegenerationTasks, 1, MaxCandidates)}

NextRegenerate ==
    \/ \E knowledgeLevel \in AllKnowledgeLevels,
          completedTasks \in {<<>>, <<TuneStrings>>, <<TuneStrings, HoldGuitar>>},
          startNodeId \in {1, 4} :
           generateBranchNodesAI(domainBranches(<<General>>, knowledgeLevel)[1],
                                 knowledgeLevel, completedTasks, startNodeId)
    \/ \E aiResponse \in RegenerationAnswers : tasksAnswered(aiResponse)

SpecRegenerate == InitGenerate /\ [][NextRegenerate]_vars

(***************************************************************************)
(* Properties of the generation.                                           *)
(***************************************************************************)
GenerateReturned ==
    /\ call # null
    /\ call.op = "generateBranchNodesAI"
    /\ response # null
    /\ response.kind = "returned"

\* the minutes the program reads from a node's duration
MinutesOf(node) == parseTimeToMinutes(node.duration)

DifficultyInBand(node, knowledgeLevel) ==
    IF knowledgeLevel <= 2 THEN node.difficulty = 1
    ELSE IF knowledgeLevel <= 4 THEN node.difficulty \in 1..2
    ELSE IF knowledgeLevel <= 6 THEN node.difficulty \in 1..3
    ELSE node.difficulty \in 1..5

DurationInBand(node, knowledgeLevel) ==
    IF knowledgeLevel <= 2 THEN MinutesOf(node) <= 25
    ELSE IF knowledgeLevel <= 4 THEN MinutesOf(node) <= 45
    ELSE IF knowledgeLevel <= 6 THEN MinutesOf(node) <= 60
    ELSE TRUE

\* C10: whatever tasks the Oracle proposes, every node generateBranchNodesAI
\* returns is inside the band of the knowledge level: difficulty 1 and at
\* most 25 minutes at level 1-2, difficulty 1..2 and at most 45 minutes at
\* level 3-4, difficulty 1..3 and at most 60 minutes at level 5-6,
\* difficulty 1..5 at level 7-10.
C10_BandClamping ==
    GenerateReturned =>
        \A i \in DOMAIN response.value :
            /\ DifficultyInBand(response.value[i], call.knowledgeLevel)
            /\ DurationInBand(response.value[i], call.knowledgeLevel)

\* the difficulty of every returned node is inside the band of the level
C10_DifficultyClamped ==
    GenerateReturned =>
        \A i \in DOMAIN response.value :
            DifficultyInBand(response.value[i], call.knowledgeLevel)

\* the duration is inside the band whenever the Oracle gave it as a number
C10_NumericDurationClamped ==
    GenerateReturned =>
        \A i \in DOMAIN response.value :
            LET given == SelectSeq(llmLog[1].resp.items,
                                   LAMBDA t : \A k \in DOMAIN call.completedTasks :
                                                  call.completedTasks[k] # t.title)
            IN  given[i].duration.type = "number" =>
                    DurationInBand(response.value[i], call.knowledgeLevel)

(***************************************************************************)
(* CleanForestServer.storeGeneratedTasks                                   *)
(***************************************************************************)
\* branchName.toLowerCase().replace(/[^a-z0-9]+/g,'_').replace(/_+/g,'_').replace(/^_|_$/g,'')
slugOf(branchName) == stripEdgeUnderscores(collapseUnderscores(slugBody(branchName)))

AutoAddedDomainFor == <<"A", "u", "t", "o", "-", "a", "d", "d", "e", "d", " ", "d", "o", "m", "a", "i", "n", " ", "f", "o", "r", " ">>

\* the find of ensureBranchExists: a branch with that id, or with that
\* title whatever the case of the letters
branchExists(branches, branchName) ==
    \E i \in DOMAIN branches :
        \/ branches[i].id = branchName
        \/ toLowerCase(branches[i].title) = toLowerCase(branchName)

ensureBranchExists(branches, branchName) ==
    IF branchExists(branches, branchName)
    THEN branches
    ELSE Append(branches,
                [id |-> slugOf(branchName),
                 title |-> capitalize(branchName),
                 priority |-> "medium",
                 completed |-> FALSE,
                 description |-> AutoAddedDomainFor \o branchName,
                 expected_duration |-> "0-3 months",
                 subBranches |-> <<>>])

\* the frontier node made of a task handed in for the branch
generatedNode(t, branchName, id) ==
    [id |-> NodeId(id),
     title |-> t.title,
     description |-> t.description,
     difficulty |-> numberOr(t.difficulty, 1),
     duration |-> nodeDuration(t.duration),
     branch |-> slugOf(branchName),
     prerequisites |-> t.prerequisites,
     generated |-> TRUE,
     completed |-> FALSE,
     priority |-> 200]

RECURSIVE tasksCount(_)
tasksCount(branchTasks) ==
    IF branchTasks = <<>> THEN 0
    ELSE Len(Head(branchTasks).tasks) + tasksCount(Tail(branchTasks))

\* the session record; its random session_id is left out
sessionMeta(branchTasks, now) ==
    [timestamp |-> now,
     tasks_count |-> tasksCount(branchTasks),
     branches_populated |-> [i \in DOMAIN branchTasks |-> branchTasks[i].branch_name],
     generation_context |-> "collaborative_handoff"]

\* the loop over branchTasks: the branch is ensured, then its tasks are
\* pushed with the ids nextId, nextId + 1, ...
RECURSIVE storeBranches(_, _, _)
storeBranches(htaData, branchTasks, nextId) ==
    IF branchTasks = <<>> THEN htaData
    ELSE LET branch == Head(branchTasks)
             branches == ensureBranchExists(get(htaData, "strategicBranches", <<>>),
                                            branch.branch_name)
             nodes == get(htaData, "frontierNodes", <<>>) \o
                      [k \in DOMAIN branch.tasks |->
                          generatedNode(branch.tasks[k], branch.branch_name, nextId + k - 1)]
         IN  storeBranches(IF branch.tasks = <<>>
                           THEN put(htaData, "strategicBranches", branches)
                           ELSE put(put(htaData, "strategicBranches", branches),
                                    "frontierNodes", nodes),
                           Tail(branchTasks), nextId + Len(branch.tasks))

\* the numbering starts at the length of the frontier
stored_countsFromLength(htaData, branchTasks, now) ==
    LET nextId == Len(get(htaData, "frontierNodes", <<>>))
        logged == put(htaData, "collaborative_sessions",
                      Append(get(htaData, "collaborative_sessions", <<>>),
                             sessionMeta(branchTasks, now)))
    IN  storeBranches(logged, branchTasks, nextId)

\* the document as storeGeneratedTasks leaves it before the save
stored(htaData, branchTasks, now) ==
    LET nextId == Len(get(htaData, "frontierNodes", <<>>)) + 1
        logged == put(htaData, "collaborative_sessions",
                      Append(get(htaData, "collaborative_sessions", <<>>),
                             sessionMeta(branchTasks, now)))
    IN  storeBranches(logged, branchTasks, nextId)

\* the document storeGeneratedTasks starts from when there is none
NoRoadmap == [frontierNodes |-> <<>>]

StoredResult(branchTasks, htaData, session) ==
    [text |-> "Stored generated tasks into HTA",
     stored |-> tasksCount(branchTasks),
     hta_frontier_count |-> Len(htaData.frontierNodes),
     session |-> session]

(***************************************************************************)
(* TaskIntelligence.evolveStrategy: the analysis                           *)
(***************************************************************************)
isCompleted(node) == get(node, "completed", FALSE)

\* getAvailableTasksCount that looks prerequisites up by id only
getAvailableTasksCount_idsOnly(htaData) ==
    LET nodes == get(htaData, "frontierNodes", <<>>)
        ids == {nodes[i].id : i \in {j \in DOMAIN nodes : isCompleted(nodes[j])}}
        available(node) ==
            /\ ~isCompleted(node)
            /\ \A k \in DOMAIN get(node, "prerequisites", <<>>) : node.prerequisites[k] \in ids
    IN  Cardinality({i \in DOMAIN nodes : available(nodes[i])})

\* TaskIntelligence.getAvailableTasksCount
getAvailableTasksCount(htaData) ==
    LET nodes == get(htaData, "frontierNodes", <<>>)
        ids == {nodes[i].id : i \in {j \in DOMAIN nodes : isCompleted(nodes[j])}}
        met(prereq) ==
            \/ prereq \in ids
            \/ \E i \in DOMAIN nodes : nodes[i].title = prereq /\ isCompleted(nodes[i])
        available(node) ==
            /\ ~isCompleted(node)
            /\ \A k \in DOMAIN get(node, "prerequisites", <<>>) : met(node.prerequisites[k])
    IN  Cardinality({i \in DOMAIN nodes : available(nodes[i])})

RECURSIVE sumEnergy(_)
sumEnergy(completions) ==
    IF completions = <<>> THEN 0
    ELSE (IF Head(completions).energyAfter = 0 THEN 3 ELSE Head(completions).energyAfter)
         + sumEnergy(Tail(completions))

\* detectStuckIndicators that reports no_available_tasks only for a roadmap
\* without tasks
detectStuckIndicators_emptyOnly(htaData, learningHistory) ==
    LET Recent(t) == t.daysAgo <= 7
        recentCompletions == SelectSeq(get(learningHistory, "completedTopics", <<>>), Recent)
    IN  (IF Len(get(htaData, "frontierNodes", <<>>)) = 0 THEN <<"no_available_tasks">> ELSE <<>>)
        \o (IF Len(recentCompletions) = 0 THEN <<"no_recent_progress">> ELSE <<>>)
        \o (IF 2 * sumEnergy(recentCompletions) < 5 * max(Len(recentCompletions), 1)
            THEN <<"low_engagement">> ELSE <<>>)

\* TaskIntelligence.detectStuckIndicators.  A completed topic carries the
\* days since completedAt and energyAfter (0: none recorded); the mean
\* sum / max(length, 1) < 2.5 is compared as 2 * sum < 5 * max(length, 1)
detectStuckIndicators(htaData, learningHistory) ==
    LET Recent(t) == t.daysAgo <= 7
        recentCompletions == SelectSeq(get(learningHistory, "completedTopics", <<>>), Recent)
    IN  (IF getAvailableTasksCount(htaData) = 0 THEN <<"no_available_tasks">> ELSE <<>>)
        \o (IF Len(recentCompletions) = 0 THEN <<"no_recent_progress">> ELSE <<>>)
        \o (IF 2 * sumEnergy(recentCompletions) < 5 * max(Len(recentCompletions), 1)
            THEN <<"low_engagement">> ELSE <<>>)

positiveWords == {<<"g", "r", "e", "a", "t">>,
                  <<"i", "n", "t", "e", "r", "e", "s", "t", "i", "n", "g">>,
                  <<"p", "r", "o", "g", "r", "e", "s", "s">>,
                  <<"e", "x", "c", "e", "l", "l", "e", "n", "t">>,
                  <<"p", "e", "r", "f", "e", "c", "t">>,
                  <<"e", "n", "e", "r", "g", "i", "z", "e", "d">>,
                  <<"p", "r", "o", "u", "d">>,
                  <<"g", "o", "o", "d">>,
                  <<"w", "o", "r", "k", "i", "n", "g">>}

negativeWords == {<<"b", "o", "r", "i", "n", "g">>,
                  <<"s", "t", "u", "c", "k">>,
                  <<"d", "i", "f", "f", "i", "c", "u", "l", "t">>,
                  <<"d", "i", "f", "f", "i", "c", "u", "l", "t", "y">>,
                  <<"f", "r", "u", "s", "t", "r", "a", "t", "e", "d">>,
                  <<"o", "v", "e", "r", "w", "h", "e", "l", "m", "e", "d">>,
                  <<"b", "a", "d">>,
                  <<"p", "r", "o", "b", "l", "e", "m">>}

\* analyzeFeedback that takes equal counts for negative
analyzeFeedback_tieIsNegative(feedback) ==
    IF feedback = EmptyString
    THEN [sentiment |-> "neutral", keywords |-> <<>>]
    ELSE LET feedbackLower == toLowerCase(feedback)
             positiveCount == Cardinality({w \in positiveWords : includes(feedbackLower, w)})
             negativeCount == Cardinality({w \in negativeWords : includes(feedbackLower, w)})
             Long(word) == Len(word) > 3
         IN  [sentiment |-> IF positiveCount > negativeCount THEN "positive"
                            ELSE IF negativeCount >= positiveCount THEN "negative"
                            ELSE "neutral",
              keywords |-> SelectSeq(SplitOn(feedback, 1, <<>>, Blanks(feedback)), Long),
              original |-> feedback]

\* TaskIntelligence.analyzeFeedback
analyzeFeedback(feedback) ==
    IF feedback = EmptyString
    THEN [sentiment |-> "neutral", keywords |-> <<>>]
    ELSE LET feedbackLower == toLowerCase(feedback)
             positiveCount == Cardinality({w \in positiveWords : includes(feedbackLower, w)})
             negativeCount == Cardinality({w \in negativeWords : includes(feedbackLower, w)})
             Long(word) == Len(word) > 3
         IN  [sentiment |-> IF positiveCount > negativeCount THEN "positive"
                            ELSE IF negativeCount > positiveCount THEN "negative"
                            ELSE "neutral",
              keywords |-> SelectSeq(SplitOn(feedback, 1, <<>>, Blanks(feedback)), Long),
              original |-> feedback]

\* determineEvolutionStrategy that looks at the sentiment before the
\* engagement
determineEvolutionStrategy_sentimentFirst(analysis) ==
    IF \E i \in DOMAIN analysis.stuckIndicators : analysis.stuckIndicators[i] = "no_available_tasks"
    THEN "generate_new_tasks"
    ELSE IF analysis.userFeedback.sentiment = "negative"
    THEN "address_user_concerns"
    ELSE IF \E i \in DOMAIN analysis.stuckIndicators : analysis.stuckIndicators[i] = "low_engagement"
    THEN "increase_variety_and_interest"
    ELSE IF analysis.availableTasks < 3
    THEN "expand_task_frontier"
    ELSE "optimize_existing_sequence"

\* TaskIntelligence.determineEvolutionStrategy
determineEvolutionStrategy(analysis) ==
    IF \E i \in DOMAIN analysis.stuckIndicators : analysis.stuckIndicators[i] = "no_available_tasks"
    THEN "generate_new_tasks"
    ELSE IF \E i \in DOMAIN analysis.stuckIndicators : analysis.stuckIndicators[i] = "low_engagement"
    THEN "increase_variety_and_interest"
    ELSE IF analysis.userFeedback.sentiment = "negative"
    THEN "address_user_concerns"
    ELSE IF analysis.availableTasks < 3
    THEN "expand_task_frontier"
    ELSE "optimize_existing_sequence"

\* TaskIntelligence.analyzeCurrentStrategy, given the document and the
\* learning history it loaded (null: no file)
analyzeCurrentStrategy(loaded, history, feedback) ==
    LET htaData == IF loaded = null THEN <<>> ELSE loaded
        learningHistory == IF history = null THEN <<>> ELSE history
        nodes == get(htaData, "frontierNodes", <<>>)
        analysis == [completedTasks |-> Cardinality({i \in DOMAIN nodes : isCompleted(nodes[i])}),
                     totalTasks |-> Len(nodes),
                     availableTasks |-> getAvailableTasksCount(htaData),
                     stuckIndicators |-> detectStuckIndicators(htaData, learningHistory),
                     userFeedback |-> analyzeFeedback(feedback)]
    IN  [recommendedEvolution |-> determineEvolutionStrategy(analysis)] @@ analysis

(***************************************************************************)
(* TaskIntelligence.generateSmartNextTasks and its generators              *)
(***************************************************************************)
Prefixed(prefix, n) == prefix \o NumberToString(n)

Learning == <<"l", "e", "a", "r", "n", "i", "n", "g">>

GeneralLearning == <<"g", "e", "n", "e", "r", "a", "l", " ", "l", "e", "a", "r", "n", "i", "n", "g">>

\* generateExplorationTasks with one task of an hour
generateExplorationTasks_hourLong(cfg, startId) ==
    <<[id |-> Prefixed(<<"e", "x", "p", "l", "o", "r", "e", "_">>, startId),
       title |-> IF get(cfg, "goal", EmptyString) = EmptyString THEN Learning ELSE cfg.goal,
       description |-> Learning,
       difficulty |-> 1,
       duration |-> Minutes(60),
       branch |-> <<"e", "x", "p", "l", "o", "r", "a", "t", "i", "o", "n">>,
       priority |-> 250,
       generated |-> TRUE]>>

generateExplorationTasks(cfg, startId) ==
    <<[id |-> Prefixed(<<"e", "x", "p", "l", "o", "r", "e", "_">>, startId),
       title |-> <<"E", "x", "p", "l", "o", "r", "e", ":", " ", "W", "h", "a", "t", "'", "s", " ", "N", "e", "x", "t", " ", "i", "n", " ">> \o
                 (IF get(cfg, "goal", EmptyString) = EmptyString THEN Learning ELSE cfg.goal),
       description |-> <<"O", "p", "e", "n", " ", "e", "x", "p", "l", "o", "r", "a", "t", "i", "o", "n", " ", "o", "f", " ", "n", "e", "x", "t", " ", "s", "t", "e", "p", "s", " ", "a", "n", "d", " ", "p", "o", "s", "s", "i", "b", "i", "l", "i", "t", "i", "e", "s">>,
       difficulty |-> 1,
       duration |-> Minutes(15),
       branch |-> <<"e", "x", "p", "l", "o", "r", "a", "t", "i", "o", "n">>,
       priority |-> 250,
       generated |-> TRUE,
       learningOutcome |-> <<"C", "l", "a", "r", "i", "t", "y", " ", "o", "n", " ", "n", "e", "x", "t", " ", "l", "e", "a", "r", "n", "i", "n", "g", " ", "d", "i", "r", "e", "c", "t", "i", "o", "n", "s">>],
      [id |-> Prefixed(<<"s", "a", "m", "p", "l", "e", "_">>, startId + 1),
       title |-> <<"S", "a", "m", "p", "l", "e", ":", " ", "T", "r", "y", " ", "S", "o", "m", "e", "t", "h", "i", "n", "g", " ", "D", "i", "f", "f", "e", "r", "e", "n", "t">>,
       description |-> <<"E", "x", "p", "e", "r", "i", "m", "e", "n", "t", " ", "w", "i", "t", "h", " ", "a", " ", "n", "e", "w", " ", "a", "p", "p", "r", "o", "a", "c", "h", " ", "o", "r", " ", "t", "e", "c", "h", "n", "i", "q", "u", "e">>,
       difficulty |-> 2,
       duration |-> Minutes(25),
       branch |-> <<"e", "x", "p", "e", "r", "i", "m", "e", "n", "t", "a", "t", "i", "o", "n">>,
       priority |-> 240,
       generated |-> TRUE,
       learningOutcome |-> <<"E", "x", "p", "e", "r", "i", "e", "n", "c", "e", " ", "w", "i", "t", "h", " ", "a", "l", "t", "e", "r", "n", "a", "t", "i", "v", "e", " ", "a", "p", "p", "r", "o", "a", "c", "h", "e", "s">>]>>

generateInterestBasedTasks(cfg, startId) ==
    LET interests == get(cfg, "specific_interests", <<>>)
    IN  [k \in 1..min(3, Len(interests)) |->
            [id |-> Prefixed(<<"i", "n", "t", "e", "r", "e", "s", "t", "_">>, startId + k - 1),
             title |-> <<"F", "o", "c", "u", "s", ":", " ">> \o interests[k],
             description |-> <<"D", "e", "d", "i", "c", "a", "t", "e", "d", " ", "w", "o", "r", "k", " ", "o", "n", " ", "y", "o", "u", "r", " ", "s", "p", "e", "c", "i", "f", "i", "c", " ", "i", "n", "t", "e", "r", "e", "s", "t", ":", " ">> \o interests[k],
             difficulty |-> 2,
             duration |-> ThirtyMinutes,
             branch |-> <<"i", "n", "t", "e", "r", "e", "s", "t", "s">>,
             priority |-> 300,
             generated |-> TRUE,
             learningOutcome |-> <<"P", "r", "o", "g", "r", "e", "s", "s", " ", "i", "n", " ">> \o interests[k]]]

generateConcernAddressingTasks(feedback, startId) ==
    <<[id |-> Prefixed(<<"a", "d", "d", "r", "e", "s", "s", "_">>, startId),
       title |-> <<"A", "d", "d", "r", "e", "s", "s", ":", " ", "C", "u", "r", "r", "e", "n", "t", " ", "C", "h", "a", "l", "l", "e", "n", "g", "e">>,
       description |-> <<"W", "o", "r", "k", " ", "o", "n", " ", "o", "v", "e", "r", "c", "o", "m", "i", "n", "g", " ", "t", "h", "e", " ", "c", "h", "a", "l", "l", "e", "n", "g", "e", ":", " ">> \o feedback.original,
       difficulty |-> 1,
       duration |-> Minutes(20),
       branch |-> <<"p", "r", "o", "b", "l", "e", "m", "_", "s", "o", "l", "v", "i", "n", "g">>,
       priority |-> 280,
       generated |-> TRUE,
       learningOutcome |-> <<"R", "e", "s", "o", "l", "u", "t", "i", "o", "n", " ", "o", "f", " ", "c", "u", "r", "r", "e", "n", "t", " ", "l", "e", "a", "r", "n", "i", "n", "g", " ", "o", "b", "s", "t", "a", "c", "l", "e">>]>>

Progression == <<"p", "r", "o", "g", "r", "e", "s", "s", "i", "o", "n">>

generateProgressiveTasks(htaData, startId) ==
    LET completedTasks == SelectSeq(get(htaData, "frontierNodes", <<>>), isCompleted)
    IN  IF completedTasks = <<>>
        THEN generateExplorationTasks([goal |-> GeneralLearning], startId)
        ELSE LET lastCompleted == completedTasks[Len(completedTasks)]
                 difficulty == IF get(lastCompleted, "difficulty", 0) = 0 THEN 3
                               ELSE lastCompleted.difficulty
             IN  <<[id |-> Prefixed(<<"b", "u", "i", "l", "d", "_">>, startId),
                    title |-> <<"B", "u", "i", "l", "d", " ", "O", "n", ":", " ">> \o lastCompleted.title,
                    description |-> <<"C", "o", "n", "t", "i", "n", "u", "e", " ", "b", "u", "i", "l", "d", "i", "n", "g", " ", "o", "n", " ", "t", "h", "e", " ", "f", "o", "u", "n", "d", "a", "t", "i", "o", "n", " ", "f", "r", "o", "m", " ">> \o lastCompleted.title,
                    difficulty |-> min(5, difficulty + 1),
                    duration |-> Minutes(35),
                    branch |-> IF get(lastCompleted, "branch", EmptyString) = EmptyString
                               THEN Progression ELSE lastCompleted.branch,
                    prerequisites |-> <<lastCompleted.id>>,
                    priority |-> 270,
                    generated |-> TRUE,
                    learningOutcome |-> <<"A", "d", "v", "a", "n", "c", "e", "d", " ", "u", "n", "d", "e", "r", "s", "t", "a", "n", "d", "i", "n", "g", " ", "b", "e", "y", "o", "n", "d", " ">> \o lastCompleted.title]>>

generateBalancedTasks == <<>>

\* TaskIntelligence.generateSmartNextTasks, given the configuration and the
\* document it loaded
generateSmartNextTasks(cfg, loaded, analysis) ==
    LET htaData == IF loaded = null THEN <<>> ELSE loaded
        taskId == Len(get(htaData, "frontierNodes", <<>>)) + 3000
        strategy == analysis.recommendedEvolution
        newTasks == IF strategy = "generate_new_tasks"
                    THEN generateExplorationTasks(cfg, taskId)
                    ELSE IF strategy = "increase_variety_and_interest"
                    THEN generateInterestBasedTasks(cfg, taskId)
                    ELSE IF strategy = "address_user_concerns"
                    THEN generateConcernAddressingTasks(analysis.userFeedback, taskId)
                    ELSE IF strategy = "expand_task_frontier"
                    THEN generateProgressiveTasks(htaData, taskId)
                    ELSE generateBalancedTasks
    IN  SubSeq(newTasks, 1, min(5, Len(newTasks)))

\* the update of evolveStrategy without the mark of a generated task
evolved_unmarked(loaded, newTasks, now) ==
    LET htaData == IF loaded = null THEN <<>> ELSE loaded
        unmarked == [i \in DOMAIN newTasks |-> put(newTasks[i], "generated", FALSE)]
    IN  put(put(htaData, "frontierNodes", get(htaData, "frontierNodes", <<>>) \o unmarked),
            "lastUpdated", now)

\* the update of evolveStrategy: the new tasks are put behind the frontier
\* nodes of the document loaded last
evolved(loaded, newTasks, now) ==
    LET htaData == IF loaded = null THEN <<>> ELSE loaded
    IN  put(put(htaData, "frontierNodes", get(htaData, "frontierNodes", <<>>) \o newTasks),
            "lastUpdated", now)

EvolveResult(analysis, newTasks, feedback) ==
    [text |-> "Strategy Evolution Complete",
     strategy_analysis |-> analysis,
     new_tasks |-> newTasks,
     feedback_processed |-> IF feedback = EmptyString THEN <<"n", "o", "n", "e">> ELSE feedback]

(***************************************************************************)
(* HtaTreeBuilder.buildHTATree and generateHTAFramework                    *)
(***************************************************************************)
\* one enrichment loop, the i-th branch enriched with the i-th answer
RECURSIVE enrichAll(_, _, _)
enrichAll(branches, idx, subResps) ==
    IF idx > Len(branches) THEN branches
    ELSE enrichAll(enrichBranch(branches, idx, subResps[idx]), idx + 1, subResps)

\* generateStrategicBranches as a whole, given the answer to the domain
\* request and the answers to the enrichment requests
strategicBranchesOf(focusAreas, knowledgeLevel, aiResp, subResps) ==
    IF useFocusAreas(focusAreas)
    THEN Returned(enrichAll(customBranches(focusAreas, knowledgeLevel), 1, subResps))
    ELSE IF aiResp = Threw
    THEN Thrown
    ELSE Returned(enrichAll(domainBranches(domainsOf(aiResp), knowledgeLevel), 1, subResps))

\* config.knowledge_level || 1
knowledgeLevelOf(cfg) ==
    IF get(cfg, "knowledge_level", 0) = 0 THEN 1 ELSE cfg.knowledge_level

\* the document generateHTAFramework returns: the frontier is empty and
\* nothing of the existing document is taken over
generateHTAFramework(cfg, pathName, learningStyle, focusAreas, strategicBranches, now) ==
    [pathName |-> pathName,
     goal |-> cfg.goal,
     strategicBranches |-> strategicBranches,
     frontierNodes |-> <<>>,
     learningStyle |-> learningStyle,
     focusAreas |-> focusAreas,
     knowledgeLevel |-> knowledgeLevelOf(cfg),
     created |-> now,
     lastUpdated |-> now]

\* pathName || config.activePath || 'general'
targetPathOf(cfg, pathName) ==
    IF pathName # "" THEN pathName
    ELSE IF get(cfg, "activePath", "") # "" THEN cfg.activePath
    ELSE "general"

\* config.learning_paths?.some(p => p.path_name === targetPath) || targetPath === 'general'
pathExists(cfg, targetPath) ==
    \/ \E i \in DOMAIN get(cfg, "learning_paths", <<>>) : cfg.learning_paths[i].path_name = targetPath
    \/ targetPath = "general"

\* !config.context || config.context.trim() === ''
contextMissing(cfg) == trim(get(cfg, "context", EmptyString)) = EmptyString

NeedsContext ==
    [text |-> "Additional context required before generating a roadmap",
     needs_context |-> TRUE,
     missing |-> <<"context">>]

ErrorBuildingTree == [text |-> "Error building HTA tree"]

PendingClaude(pending) == [text |-> "LLM generation required", pending_claude |-> pending]

TreeBuilt(htaData, targetPath) ==
    [text |-> "HTA Tree built successfully",
     hta_tree |-> htaData,
     active_path |-> targetPath]

\* what buildHTATree returns after its saves
buildResult(htaData, targetPath, pending) ==
    IF Len(htaData.frontierNodes) = 0 /\ Len(pending) > 0
    THEN PendingClaude(pending[1])
    ELSE TreeBuilt(htaData, targetPath)

ErrorEvolvingStrategy == [text |-> "Error evolving strategy"]

(***************************************************************************)
(* The operations on the roadmap document, step by step.  A step runs from *)
(* one await on the file system or the Oracle to the next:                 *)
(*   load      loadPathHTA is called: the cache is looked up               *)
(*   read      the cache missed: fs.readFile is awaited                    *)
(*   decompose generateStrategicBranches awaits the Oracle                 *)
(*   write     savePathHTA is called: fs.writeFile is awaited              *)
(*   done      the operation has returned                                  *)
(***************************************************************************)
MaxOps == 2

\* request p may start an operation
mayStart(p) == ops[p].pc = "done" /\ clock < MaxOps

\* the operation of p at its next position, with changed local variables
at(p, pc, locals) == [ops EXCEPT ![p] = locals @@ [ops[p] EXCEPT !.pc = pc]]

\* the operation of p has returned
finished(p, result, locals) ==
    [ops EXCEPT ![p] = locals @@ [ops[p] EXCEPT !.pc = "done", !.obj = 0, !.result = result]]

\* the document of ref as doc, under a new reference when ref is 0
\* (the operation made the object itself): <<reference, heap>>
withDoc(h, c, ref, doc) ==
    LET r == IF ref = 0 THEN alloc(c, ops) ELSE ref
    IN  <<r, [h EXCEPT ![r] = doc]>>

\* storeGeneratedTasks is called: requireActiveProject and the load of
\* config.json, whose activePath is read outside any try
storeGeneratedTasks(p, branchTasks) ==
    /\ mayStart(p)
    /\ clock' = clock + 1
    /\ ops' = [ops EXCEPT ![p] =
                  [kind |-> "store", branchTasks |-> branchTasks, obj |-> 0, stage |-> 1,
                   pc |-> IF activeProject /\ config # null THEN "load" ELSE "done",
                   result |-> IF activeProject /\ config # null THEN null ELSE Thrown]]
    /\ UNCHANGED <<activeProject, config, hta, errorLog, call, response, builder, llmLog,
                   pendingClaudeRequests, heap, cache>>

\* evolveStrategy is called; learningHistory is the content of
\* learning_history.json (null: no file)
evolveStrategy(p, feedback, learningHistory) ==
    /\ mayStart(p)
    /\ clock' = clock + 1
    /\ ops' = [ops EXCEPT ![p] =
                  [kind |-> "evolve", feedback |-> feedback, learningHistory |-> learningHistory,
                   obj |-> 0, stage |-> 1,
                   pc |-> IF activeProject /\ config # null THEN "load" ELSE "done",
                   result |-> IF activeProject /\ config # null THEN null
                              ELSE Returned(ErrorEvolvingStrategy)]]
    /\ errorLog' = IF activeProject /\ config # null THEN errorLog
                   ELSE Append(errorLog, "evolveStrategy")
    /\ UNCHANGED <<activeProject, config, hta, call, response, builder, llmLog,
                   pendingClaudeRequests, heap, cache>>

\* buildHTATree is called: the checks before the existing document is loaded
buildHTATree(p, pathName, learningStyle, focusAreas) ==
    /\ mayStart(p)
    /\ clock' = clock + 1
    /\ LET failed == \/ ~activeProject
                     \/ config = null
                     \/ ~contextMissing(config) /\ ~pathExists(config, targetPathOf(config, pathName))
           asks == activeProject /\ config # null /\ contextMissing(config)
       IN  /\ ops' = [ops EXCEPT ![p] =
                         [kind |-> "build", pathName |-> pathName, learningStyle |-> learningStyle,
                          focusAreas |-> focusAreas, obj |-> 0, stage |-> 1,
                          pc |-> IF failed \/ asks THEN "done" ELSE "load",
                          result |-> IF failed THEN Returned(ErrorBuildingTree)
                                     ELSE IF asks THEN Returned(NeedsContext)
                                     ELSE null]]
           /\ errorLog' = IF failed THEN Append(errorLog, "buildHTATree") ELSE errorLog
    /\ UNCHANGED <<activeProject, config, hta, call, response, builder, llmLog,
                   pendingClaudeRequests, heap, cache>>

\* the operation of p goes on with the document it loaded (ref; 0: none),
\* up to its next await; h and c are heap and cache after the load
resume(p, ref, h, c) ==
    LET op == ops[p]
        loaded == deref(h, ref)
    IN  IF op.kind = "store"
        THEN LET doc == stored(IF loaded = null THEN NoRoadmap ELSE loaded, op.branchTasks, clock)
                 new == withDoc(h, c, ref, doc)
                 n == IF loaded = null THEN 0 ELSE Len(get(loaded, "frontierNodes", <<>>))
             IN  /\ ops' = at(p, "write", [obj |-> new[1], n |-> n,
                                            session |-> sessionMeta(op.branchTasks, clock)])
                 /\ heap' = sweep(new[2], c, ops')
        ELSE IF op.kind = "evolve" /\ op.stage = 1
        THEN /\ ops' = at(p, "load",
                          [stage |-> 2,
                           analysis |-> analyzeCurrentStrategy(loaded, op.learningHistory, op.feedback)])
             /\ heap' = sweep(h, c, ops')
        ELSE IF op.kind = "evolve" /\ op.stage = 2
        THEN LET newTasks == generateSmartNextTasks(config, loaded, op.analysis)
             IN  /\ ops' = IF Len(newTasks) > 0
                           THEN at(p, "load", [stage |-> 3, newTasks |-> newTasks])
                           ELSE finished(p, Returned(EvolveResult(op.analysis, newTasks, op.feedback)),
                                         [newTasks |-> newTasks])
                 /\ heap' = sweep(h, c, ops')
        ELSE IF op.kind = "evolve"
        THEN LET new == withDoc(h, c, ref, evolved(loaded, op.newTasks, clock))
             IN  /\ ops' = at(p, "write", [obj |-> new[1]])
                 /\ heap' = sweep(new[2], c, ops')
        ELSE /\ ops' = at(p, "decompose", <<>>)
             /\ heap' = sweep(h, c, ops')

\* DataPersistence.loadProjectData up to its first await: a valid cache
\* entry is returned as it is, otherwise the file is read
loadPathHTA(p) ==
    /\ ops[p].pc = "load"
    /\ IF cache # 0
       THEN resume(p, cache, heap, cache)
       ELSE ops' = at(p, "read", <<>>) /\ UNCHANGED heap
    /\ UNCHANGED <<activeProject, config, hta, errorLog, call, response, builder, llmLog,
                   pendingClaudeRequests, cache, clock>>

\* fs.readFile has answered: no file gives null; the text is parsed into
\* a new object, which becomes the cache entry
readFile(p) ==
    /\ ops[p].pc = "read"
    /\ IF hta = null
       THEN resume(p, 0, heap, cache) /\ UNCHANGED cache
       ELSE LET r == alloc(0, ops)
            IN  /\ cache' = r
                /\ resume(p, r, [heap EXCEPT ![r] = hta], r)
    /\ UNCHANGED <<activeProject, config, hta, errorLog, call, response, builder, llmLog,
                   pendingClaudeRequests, clock>>

\* generateHTAFramework: the Oracle has answered the requests of
\* generateStrategicBranches (subResp to every enrichment request), none of
\* which reads or writes the document; a rejected domain request is caught
\* by buildHTATree, otherwise savePathHTA is called with the new document
decompose(p, aiResp, subResp) ==
    /\ ops[p].pc = "decompose"
    /\ LET op == ops[p]
           targetPath == targetPathOf(config, op.pathName)
           branches == strategicBranchesOf(op.focusAreas, knowledgeLevelOf(config), aiResp,
                                           [i \in 1..(Len(op.focusAreas) + 1 + MaxBranches) |-> subResp])
       IN  IF branches = Thrown
           THEN /\ ops' = finished(p, Returned(ErrorBuildingTree), <<>>)
                /\ errorLog' = Append(errorLog, "buildHTATree")
                /\ heap' = sweep(heap, cache, ops')
           ELSE LET htaData == generateHTAFramework(config, targetPath, op.learningStyle,
                                                    op.focusAreas, branches.value, clock)
                    new == withDoc(heap, cache, 0, htaData)
                IN  /\ ops' = at(p, "write", [obj |-> new[1], aiResp |-> aiResp])
                    /\ heap' = sweep(new[2], cache, ops')
                    /\ UNCHANGED errorLog
    /\ UNCHANGED <<activeProject, config, hta, call, response, builder, llmLog,
                   pendingClaudeRequests, cache, clock>>

\* a save that keeps the frontier nodes the file has and the document
\* written lacks
writeFile_merges(p, ok) ==
    /\ ops[p].pc = "write"
    /\ LET op == ops[p]
           htaData == heap[op.obj]
           saved == [saved |-> htaData, ok |-> ok]
       IN  /\ IF ok
              THEN /\ hta' = IF hta = null THEN htaData
                             ELSE LET Missing(node) ==
                                          \A k \in DOMAIN htaData.frontierNodes :
                                              htaData.frontierNodes[k].id # node.id
                                  IN  put(htaData, "frontierNodes",
                                          htaData.frontierNodes
                                          \o SelectSeq(get(hta, "frontierNodes", <<>>), Missing))
                   /\ cache' = 0
                   /\ UNCHANGED errorLog
              ELSE errorLog' = Append(errorLog, "saveProjectData") /\ UNCHANGED <<hta, cache>>
           /\ IF op.kind = "store"
              THEN /\ ops' = finished(p, Returned(StoredResult(op.branchTasks, htaData, op.session)), saved)
                   /\ UNCHANGED config
              ELSE IF op.kind = "evolve"
              THEN /\ ops' = finished(p, Returned(EvolveResult(op.analysis, op.newTasks, op.feedback)), saved)
                   /\ UNCHANGED config
              ELSE /\ ops' = finished(p, Returned(buildResult(htaData, targetPathOf(config, op.pathName),
                                                             pendingClaudeRequests)), saved)
                   /\ config' = put(config, "activePath", targetPathOf(config, op.pathName))
           /\ heap' = sweep(heap, cache', ops')
    /\ UNCHANGED <<activeProject, call, response, builder, llmLog, pendingClaudeRequests, clock>>

\* DataPersistence.saveProjectData: the text of the document as it is now
\* is written and the cache entry dropped, or the write fails and the
\* error is logged; the caller looks at neither outcome and returns
writeFile(p, ok) ==
    /\ ops[p].pc = "write"
    /\ LET op == ops[p]
           htaData == heap[op.obj]
           saved == [saved |-> htaData, ok |-> ok]
       IN  /\ IF ok
              THEN hta' = htaData /\ cache' = 0 /\ UNCHANGED errorLog
              ELSE errorLog' = Append(errorLog, "saveProjectData") /\ UNCHANGED <<hta, cache>>
           /\ IF op.kind = "store"
              THEN /\ ops' = finished(p, Returned(StoredResult(op.branchTasks, htaData, op.session)), saved)
                   /\ UNCHANGED config
              ELSE IF op.kind = "evolve"
              THEN /\ ops' = finished(p, Returned(EvolveResult(op.analysis, op.newTasks, op.feedback)), saved)
                   /\ UNCHANGED config
              ELSE /\ ops' = finished(p, Returned(buildResult(htaData, targetPathOf(config, op.pathName),
                                                             pendingClaudeRequests)), saved)
                   /\ config' = put(config, "activePath", targetPathOf(config, op.pathName))
           /\ heap' = sweep(heap, cache', ops')
    /\ UNCHANGED <<activeProject, call, response, builder, llmLog, pendingClaudeRequests, clock>>

\* five minutes have passed since the cache entry was set
cacheExpires ==
    /\ cache # 0
    /\ cache' = 0
    /\ heap' = sweep(heap, 0, ops)
    /\ UNCHANGED <<activeProject, config, hta, errorLog, call, response, builder, llmLog,
                   pendingClaudeRequests, ops, clock>>

\* TaskCompletion.completeBlock, as far as the roadmap goes, as a request
\* of its own between the others: the frontier node with the id is marked
\* completed in the persisted document
completeBlock(blockId) ==
    /\ \A p \in Procs : ops[p].pc = "done"
    /\ hta # null
    /\ \E i \in DOMAIN hta.frontierNodes :
           hta.frontierNodes[i].id = blockId /\ ~isCompleted(hta.frontierNodes[i])
    /\ hta' = put(hta, "frontierNodes",
                  [i \in DOMAIN hta.frontierNodes |->
                      IF hta.frontierNodes[i].id = blockId
                      THEN put(hta.frontierNodes[i], "completed", TRUE)
                      ELSE hta.frontierNodes[i]])
    /\ cache' = 0
    /\ heap' = sweep(heap, 0, ops)
    /\ UNCHANGED <<activeProject, config, errorLog, call, response, builder, llmLog,
                   pendingClaudeRequests, ops, clock>>

(***************************************************************************)
(* Inputs of the roadmap model.                                            *)
(***************************************************************************)
CoreGrammar == <<"C", "o", "r", "e", " ", "G", "r", "a", "m", "m", "a", "r">>

JazzPiano == <<"j", "a", "z", "z", " ", "p", "i", "a", "n", "o">>

SelfTaught == <<"s", "e", "l", "f", " ", "t", "a", "u", "g", "h", "t">>

Blues == <<"b", "l", "u", "e", "s">>

StuckAgain == <<"s", "t", "u", "c", "k", " ", "a", "g", "a", "i", "n">>

\* a project configuration that lets a roadmap be built
RoadmapConfig ==
    [context |-> SelfTaught, knowledge_level |-> 1, specific_interests |-> <<Blues>>]
    @@ ProjectConfig

\* a task handed to storeGeneratedTasks
HandedTask(title, difficulty, duration) ==
    [title |-> title, description |-> title, difficulty |-> difficulty,
     duration |-> duration, prerequisites |-> <<>>]

\* what storeGeneratedTasks is called with: a task of difficulty 9 for a
\* branch named by the title of a branch the Oracle proposes; two tasks
\* for a branch that is new; a task for the first domain by its id, which
\* waits for the task titled "Hold guitar", and a branch without tasks
BranchTasksChoices ==
    {<<[branch_name |-> CoreGrammar,
        tasks |-> <<HandedTask(HoldGuitar, Number(9), Number(20))>>]>>,
     <<[branch_name |-> JazzPiano,
        tasks |-> <<HandedTask(HoldGuitar, undefined, undefined),
                    HandedTask(TuneStrings, Number(2), String(TwoHours))>>]>>,
     <<[branch_name |-> domainId(1),
        tasks |-> <<put(HandedTask(TuneStrings, Number(3), Number(15)),
                        "prerequisites", <<HoldGuitar>>)>>],
       [branch_name |-> General, tasks |-> <<>>]>>}

FeedbackChoices == {EmptyString, StuckAgain}

\* learning_history.json: no file, or one topic completed two days ago
\* with energy 4 afterwards
LearningHistories == {null, [completedTopics |-> <<[daysAgo |-> 2, energyAfter |-> 4]>>]}

\* the calls of buildHTATree: the path ("": none given, "ghost": a path
\* the configuration does not have) and the focus areas
BuildChoices ==
    {[pathName |-> "", focusAreas |-> <<>>],
     [pathName |-> "", focusAreas |-> <<JazzPiano>>],
     [pathName |-> "ghost", focusAreas |-> <<>>]}

\* the answers of the Oracle to the domain request of a build
BuildDomainAnswers == {Deferred, Threw, ArrayAnswer(<<CoreGrammar>>)}

\* the ids of the frontier nodes on disk
persistedIds ==
    IF hta = null THEN {} ELSE {hta.frontierNodes[i].id : i \in DOMAIN hta.frontierNodes}

InitRoadmap ==
    /\ activeProject = TRUE
    /\ config \in {RoadmapConfig, ProjectConfig, null}
    /\ hta = null
    /\ errorLog = <<>>
    /\ call = null
    /\ response = null
    /\ builder = null
    /\ llmLog = <<>>
    /\ pendingClaudeRequests = <<>>
    /\ ops = NoOps
    /\ heap = EmptyHeap
    /\ cache = 0
    /\ clock = 0

\* the steps of request p
StepsOf(p) ==
    \/ \E branchTasks \in BranchTasksChoices : storeGeneratedTasks(p, branchTasks)
    \/ \E feedback \in FeedbackChoices, learningHistory \in LearningHistories :
           evolveStrategy(p, feedback, learningHistory)
    \/ \E b \in BuildChoices : buildHTATree(p, b.pathName, "mixed", b.focusAreas)
    \/ loadPathHTA(p)
    \/ readFile(p)
    \/ \E aiResp \in BuildDomainAnswers : decompose(p, aiResp, Deferred)
    \/ \E ok \in BOOLEAN : writeFile(p, ok)

\* one request at a time
NextRoadmap ==
    \/ StepsOf("a")
    \/ cacheExpires
    \/ \E blockId \in persistedIds : completeBlock(blockId)

SpecRoadmap == InitRoadmap /\ [][NextRoadmap]_vars

(***************************************************************************)
(* Two requests at a time.  The server handles a request up to its next    *)
(* await and then goes on with whatever continuation is ready, so the      *)
(* steps of two operations on the same document interleave.                *)
(***************************************************************************)
\* what the second kind of client hands in: two tasks for one new branch
RaceBranchTasks ==
    <<[branch_name |-> JazzPiano,
       tasks |-> <<HandedTask(HoldGuitar, Number(2), Number(20)),
                   HandedTask(TuneStrings, Number(3), Number(15))>>]>>

InitRace ==
    /\ activeProject = TRUE
    /\ config = RoadmapConfig
    /\ hta = null
    /\ errorLog = <<>>
    /\ call = null
    /\ response = null
    /\ builder = null
    /\ llmLog = <<>>
    /\ pendingClaudeRequests = <<>>
    /\ ops = NoOps
    /\ heap = EmptyHeap
    /\ cache = 0
    /\ clock = 0

NextRace ==
    \/ \E p \in Procs : storeGeneratedTasks(p, RaceBranchTasks)
    \/ \E p \in Procs : evolveStrategy(p, EmptyString, null)
    \/ \E p \in Procs : loadPathHTA(p)
    \/ \E p \in Procs : readFile(p)
    \/ \E p \in Procs, ok \in BOOLEAN : writeFile(p, ok)
    \/ cacheExpires

SpecRace == InitRace /\ [][NextRace]_vars

(***************************************************************************)
(* Selection and evolution on the same roadmap: one getNextTask request    *)
(* and one evolveStrategy request, one after the other in either order,    *)
(* on a roadmap that is on disk when the first of them arrives.            *)
(***************************************************************************)
RoadmapTask(i, completed, prerequisites, minutes) ==
    [id |-> NodeId(i), title |-> TitleAt(i), description |-> LearningSongs,
     completed |-> completed, prerequisites |-> prerequisites, duration |-> Minutes(minutes),
     difficulty |-> 1, priority |-> 200, opportunityType |-> "none", generated |-> FALSE]

\* the task at position i: completed; open and 13 minutes long; waiting
\* for node_1, for the task titled "B", or for a task the roadmap lacks
EvolveTasks(i) ==
    {RoadmapTask(i, TRUE, <<>>, 12),
     RoadmapTask(i, FALSE, <<>>, 13),
     RoadmapTask(i, FALSE, <<NodeId(1)>>, 12),
     RoadmapTask(i, FALSE, <<TitleAt(2)>>, 12),
     RoadmapTask(i, FALSE, <<Unknown>>, 12)}

\* three open tasks of 13 minutes
ThreeOpen == [i \in 1..3 |-> RoadmapTask(i, FALSE, <<>>, 13)]

EvolveRoadmaps == {ThreeOpen} \cup UNION {SeqsOf(EvolveTasks, n) : n \in 0..MaxTasks}

EvolveTimeChoices == {Minutes(10), Minutes(15)}

InitEvolve ==
    /\ activeProject = TRUE
    /\ config \in {ProjectConfig, RoadmapConfig}
    /\ \/ hta = null
       \/ \E nodes \in EvolveRoadmaps : hta = [frontierNodes |-> nodes]
    /\ errorLog = <<>>
    /\ call = null
    /\ response = null
    /\ builder = null
    /\ llmLog = <<>>
    /\ pendingClaudeRequests = <<>>
    /\ ops = NoOps
    /\ heap = EmptyHeap
    /\ cache = 0
    /\ clock = 0

NextEvolve ==
    \/ \E timeAvailable \in EvolveTimeChoices :
           ops["a"].pc = "done" /\ getNextTask(EmptyString, 3, timeAvailable)
    \/ \E feedback \in FeedbackChoices, learningHistory \in LearningHistories :
           clock = 0 /\ evolveStrategy("a", feedback, learningHistory)
    \/ loadPathHTA("a")
    \/ readFile("a")
    \/ \E ok \in BOOLEAN : writeFile("a", ok)
    \/ cacheExpires

SpecEvolve == InitEvolve /\ [][NextEvolve]_vars

(***************************************************************************)
(* ForestServerTest.formatTime and parseTime (server-test-wrapper.js)      *)
(***************************************************************************)
AM == <<"A", "M">>

PM == <<"P", "M">>

\* mins.toString().padStart(2, '0')
padStart2(s) == IF Len(s) < 2 THEN <<"0">> \o s ELSE s

\* formatTime that writes noon as 12:00 AM
formatTime_noonIsAM(minutes) ==
    LET hours24 == minutes \div 60
        mins == minutes % 60
        hours12 == IF hours24 = 0 THEN 12
                   ELSE IF hours24 > 12 THEN hours24 - 12
                   ELSE hours24
        ampm == IF hours24 > 12 THEN PM ELSE AM
    IN  NumberToString(hours12) \o <<":">> \o padStart2(NumberToString(mins)) \o <<" ">> \o ampm

formatTime(minutes) ==
    LET hours24 == minutes \div 60
        mins == minutes % 60
        hours12 == IF hours24 = 0 THEN 12
                   ELSE IF hours24 > 12 THEN hours24 - 12
                   ELSE hours24
        ampm == IF hours24 >= 12 THEN PM ELSE AM
    IN  NumberToString(hours12) \o <<":">> \o padStart2(NumberToString(mins)) \o <<" ">> \o ampm

\* timeStr.match(/^(\d{1,2}):(\d{2})\s*(AM|PM)$/i): the number of hour
\* digits of the match, 0 when the text does not match
hourDigits(timeStr) ==
    LET n == Len(timeStr)
        Fits(k) ==
            /\ n >= k + 5
            /\ \A i \in 1..k : timeStr[i] \in DigitChars
            /\ timeStr[k + 1] = ":"
            /\ timeStr[k + 2] \in DigitChars
            /\ timeStr[k + 3] \in DigitChars
            /\ \A i \in (k + 4)..(n - 2) : IsSpace(timeStr[i])
            /\ toLowerCase(SubSeq(timeStr, n - 1, n)) \in {toLowerCase(AM), toLowerCase(PM)}
    IN  IF Fits(1) THEN 1 ELSE IF Fits(2) THEN 2 ELSE 0

\* parseTime: null when the text does not match, else the minutes as a
\* number
parseTime(timeStr) ==
    LET k == hourDigits(timeStr)
        n == Len(timeStr)
    IN  IF k = 0 THEN null
        ELSE LET hours == parseInt(SubSeq(timeStr, 1, k))
                 minutes == parseInt(SubSeq(timeStr, k + 2, k + 3))
                 isPM == toLowerCase(SubSeq(timeStr, n - 1, n)) = toLowerCase(PM)
                 hours24 == IF isPM /\ hours # 12 THEN hours + 12
                            ELSE IF ~isPM /\ hours = 12 THEN 0
                            ELSE hours
             IN  Number(hours24 * 60 + minutes)

\* the minutes of a day
MinutesOfDay == 0..(24 * 60 - 1)

\* texts handed to parseTime that formatTime does not make
ClockTexts ==
    {<<"6", ":", "0", "0", "a", "m">>,
     <<"0", "6", ":", "0", "0", " ", " ", "p", "M">>,
     <<"1", "3", ":", "7", "5", " ", "P", "M">>,
     <<"6", ":", "0", " ", "A", "M">>,
     <<"1", "2", "3", ":", "0", "0", " ", "A", "M">>,
     <<"n", "o", "o", "n">>,
     EmptyString}

\* a test calls formatTime
timeFormatted(minutes) ==
    /\ call = null
    /\ call' = [op |-> "formatTime", minutes |-> minutes]
    /\ response' = formatTime(minutes)
    /\ UNCHANGED <<activeProject, config, hta, errorLog, builder, llmLog, pendingClaudeRequests,
                   ops, heap, cache, clock>>

\* a test calls parseTime with the text formatTime made
timeParsedBack ==
    /\ call # null
    /\ call.op = "formatTime"
    /\ call' = [op |-> "parseTime", timeStr |-> response, minutes |-> call.minutes]
    /\ response' = parseTime(response)
    /\ UNCHANGED <<activeProject, config, hta, errorLog, builder, llmLog, pendingClaudeRequests,
                   ops, heap, cache, clock>>

\* a test calls parseTime with a text of its own
timeParsed(timeStr) ==
    /\ call = null
    /\ call' = [op |-> "parseTime", timeStr |-> timeStr]
    /\ response' = parseTime(timeStr)
    /\ UNCHANGED <<activeProject, config, hta, errorLog, builder, llmLog, pendingClaudeRequests,
                   ops, heap, cache, clock>>

InitTime ==
    /\ activeProject = FALSE
    /\ config = null
    /\ hta = null
    /\ errorLog = <<>>
    /\ call = null
    /\ response = null
    /\ builder = null
    /\ llmLog = <<>>
    /\ pendingClaudeRequests = <<>>
    /\ ops = NoOps
    /\ heap = EmptyHeap
    /\ cache = 0
    /\ clock = 0

NextTime ==
    \/ \E minutes \in MinutesOfDay : timeFormatted(minutes)
    \/ timeParsedBack
    \/ \E timeStr \in ClockTexts : timeParsed(timeStr)

SpecTime == InitTime /\ [][NextTime]_vars

(***************************************************************************)
(* Properties of the roadmap document and of the deferred generation.      *)
(***************************************************************************)
\* the frontier nodes of the document on disk
persistedNodes == IF hta = null THEN <<>> ELSE get(hta, "frontierNodes", <<>>)

\* C11: after any sequence of buildHTATree, storeGeneratedTasks and
\* evolveStrategy, every frontier node of the document on disk has a
\* difficulty in 1..5, whatever difficulty the stored tasks carried.
C11_DifficultyInRange ==
    \A i \in DOMAIN persistedNodes : persistedNodes[i].difficulty \in 1..5

\* the answer of the Oracle to the one request for tasks
taskAnswer == llmLog[1].resp

\* C12: when the Oracle answers the request for tasks with Deferred,
\* generateBranchNodesAI does not return an ordinary empty list of nodes:
\* its caller receives a result that says the generation is deferred.
C12_DeferredIsNotAnEmptyList ==
    (GenerateReturned /\ taskAnswer = Deferred) => response.value # <<>>

\* C19: whatever the Oracle proposes, no node generateBranchNodesAI
\* returns has the title of a task completed in the existing roadmap.
C19_NoCompletedTitleReturned ==
    GenerateReturned =>
        \A i \in DOMAIN response.value :
            \A k \in DOMAIN call.completedTasks :
                response.value[i].title # call.completedTasks[k]

\* the Oracle proposed a task under the title of a completed one next to
\* another task, and only the other one came back
C19_Witness ==
    /\ GenerateReturned
    /\ taskAnswer.kind = "array"
    /\ Len(taskAnswer.items) = 2
    /\ taskAnswer.items[1].title = TuneStrings
    /\ call.completedTasks = <<TuneStrings>>
    /\ Len(response.value) = 1
    /\ response.value[1].title = HoldGuitar

\* an answer that cannot be read as tasks: text that is no JSON, JSON that
\* is no array, an empty array, no response object
Unparseable == {InvalidJson, NotAnArray, ArrayAnswer(<<>>), NullAnswer}

\* C20: when the answer to the request for tasks cannot be read as tasks,
\* generateBranchNodesAI returns an empty list of nodes, no error is
\* raised or logged, and the branch is the one that was handed in.
C20_UnparseableGivesEmptyList ==
    (call # null /\ call.op = "generateBranchNodesAI" /\ response # null
     /\ taskAnswer \in Unparseable) =>
        /\ response = Returned(<<>>)
        /\ errorLog = <<>>
        /\ pendingClaudeRequests = <<>>
        /\ call.branch = domainBranches(<<General>>, call.knowledgeLevel)[1]

\* text that is no JSON came back and the empty list was returned
C20_Witness ==
    /\ GenerateReturned
    /\ taskAnswer = InvalidJson
    /\ response.value = <<>>

\* the ids of a sequence of frontier nodes, in order
idsOf(nodes) == [i \in DOMAIN nodes |-> nodes[i].id]

\* request p has returned from a storeGeneratedTasks that reached its save
storeReturned(p) ==
    /\ ops[p].kind = "store"
    /\ ops[p].pc = "done"
    /\ "saved" \in DOMAIN ops[p]

\* C13: a storeGeneratedTasks call with k tasks on a document of n frontier
\* nodes hands a document of n + k nodes to the save; the nodes appended
\* have the ids node_(n+1) .. node_(n+k), which differ from each other and
\* from every id the document had, and a save that succeeds puts exactly
\* these nodes on disk.
C13_SequentialIdsAppended ==
    \A p \in Procs :
        storeReturned(p) =>
            LET n == ops[p].n
                k == tasksCount(ops[p].branchTasks)
                ids == idsOf(ops[p].saved.frontierNodes)
            IN  /\ Len(ids) = n + k
                /\ \A j \in 1..k : ids[n + j] = NodeId(n + j)
                /\ \A i \in 1..(n + k), j \in (n + 1)..(n + k) : i # j => ids[i] # ids[j]
                /\ ops[p].result.value.hta_frontier_count = n + k
                /\ ops[p].ok => idsOf(persistedNodes) = ids

\* two tasks were stored behind the nodes the document already had, and
\* the save succeeded
C13_Witness ==
    /\ storeReturned("a")
    /\ ops["a"].n >= 1
    /\ tasksCount(ops["a"].branchTasks) = 2
    /\ ops["a"].ok
    /\ Len(persistedNodes) = ops["a"].n + 2

\* C14: the ids of the frontier nodes of the document on disk are unique,
\* after any sequence and any interleaving of storeGeneratedTasks and
\* evolveStrategy calls, two overlapping evolveStrategy calls included.
C14_PersistedIdsUnique ==
    \A i, j \in DOMAIN persistedNodes :
        i # j => persistedNodes[i].id # persistedNodes[j].id

\* request p has returned from an operation whose save succeeded
savedOk(p) ==
    /\ ops[p].pc = "done"
    /\ "saved" \in DOMAIN ops[p]
    /\ ops[p].ok

\* request p has returned the success message of its operation
reportsSuccess(p) ==
    /\ ops[p].pc = "done"
    /\ ops[p].result.kind = "returned"
    /\ ops[p].result.value.text \in {"Stored generated tasks into HTA", "Strategy Evolution Complete"}

\* the frontier nodes request p added to the document it saved
addedBy(p) ==
    IF ops[p].kind = "store"
    THEN SubSeq(ops[p].saved.frontierNodes, ops[p].n + 1,
                ops[p].n + tasksCount(ops[p].branchTasks))
    ELSE ops[p].newTasks

\* a frontier node with that id and title is on disk
onDisk(node) ==
    \E i \in DOMAIN persistedNodes :
        persistedNodes[i].id = node.id /\ persistedNodes[i].title = node.title

\* C15: the save is a write of the whole document, the last one wins.
\* When two requests have both returned from a storeGeneratedTasks or an
\* evolveStrategy whose save succeeded, both report success, and the file
\* is the document of one of the two as that one saved it; the nodes the
\* other added are on disk only if that document held them.
C15_LastWriterWins ==
    (savedOk("a") /\ savedOk("b")) =>
        /\ reportsSuccess("a")
        /\ reportsSuccess("b")
        /\ hta \in {ops["a"].saved, ops["b"].saved}

\* both requests had loaded the document before either saved: both report
\* success, the nodes of b are on disk and none of the nodes of a is
C15_Witness ==
    /\ savedOk("a")
    /\ savedOk("b")
    /\ reportsSuccess("a")
    /\ reportsSuccess("b")
    /\ ops["a"].kind = "store"
    /\ ops["b"].kind = "evolve"
    /\ Len(addedBy("a")) = 2
    /\ Len(addedBy("b")) = 2
    /\ \A i \in DOMAIN addedBy("b") : onDisk(addedBy("b")[i])
    /\ \A i \in DOMAIN addedBy("a") : ~onDisk(addedBy("a")[i])

\* the ids of the strategic branches of the document on disk
persistedBranchIds ==
    IF hta = null THEN {}
    ELSE {hta.strategicBranches[i].id : i \in DOMAIN get(hta, "strategicBranches", <<>>)}

\* C16: every frontier node of the document on disk names, as its branch,
\* the id of a strategic branch of that document, after any sequence of
\* buildHTATree, storeGeneratedTasks (also for a branch name that matches a
\* branch by its title) and evolveStrategy.
C16_TasksReferenceBranches ==
    \A i \in DOMAIN persistedNodes : persistedNodes[i].branch \in persistedBranchIds

\* the same for the nodes storeGeneratedTasks makes, which alone have the
\* priority 200
C16_StoredTasksReferenceBranches ==
    \A i \in DOMAIN persistedNodes :
        persistedNodes[i].priority = 200 => persistedNodes[i].branch \in persistedBranchIds

\* this step is the save of a buildHTATree
buildSaves == \E p \in Procs : ops[p].kind = "build" /\ ops[p].pc = "write" /\ ops'[p].pc = "done"

\* every node completed on disk before the step is completed on disk after
completedKept ==
    \A i \in DOMAIN persistedNodes :
        isCompleted(persistedNodes[i]) =>
            \E j \in DOMAIN persistedNodes' :
                /\ persistedNodes'[j].id = persistedNodes[i].id
                /\ isCompleted(persistedNodes'[j])

\* C17: completion is permanent.  Once the document on disk holds a
\* frontier node as completed, the document on disk after every later
\* step of buildHTATree, storeGeneratedTasks or evolveStrategy holds the
\* node of that id as completed.
C17_CompletionIsPermanent == [][completedKept]_vars

\* the same for every step but the save of a buildHTATree
C17_CompletionKeptWithoutBuild == [][~buildSaves => completedKept]_vars

\* the session log of the document on disk
sessionLog == IF hta = null THEN <<>> ELSE get(hta, "collaborative_sessions", <<>>)

\* the log before the step is a prefix of the log after it
logExtended ==
    /\ Len(sessionLog) <= Len(sessionLog')
    /\ SubSeq(sessionLog', 1, Len(sessionLog)) = sessionLog

\* C18: the session log is append-only.  Across every step of
\* buildHTATree, storeGeneratedTasks and evolveStrategy the log of the
\* document on disk before the step is a prefix of the log after it.
C18_SessionLogAppendOnly == [][logExtended]_vars

\* the same for every step but the save of a buildHTATree
C18_LogKeptWithoutBuild == [][~buildSaves => logExtended]_vars

\* request p is a buildHTATree whose generateHTAFramework has returned
\* its document, all requests to the Oracle deferred
frameworkDeferred(p) ==
    /\ ops[p].kind = "build"
    /\ "saved" \in DOMAIN ops[p]
    /\ ops[p].aiResp = Deferred

\* C21: with an Oracle that defers every request, the document
\* generateHTAFramework returns for a project of knowledge level 1 has at
\* least one frontier node, and every frontier node has a difficulty of
\* at most 2 and a duration of at most 30 minutes.
C21_BeginnerFrameworkHasFrontier ==
    \A p \in Procs :
        (frameworkDeferred(p) /\ ops[p].saved.knowledgeLevel = 1) =>
            LET nodes == ops[p].saved.frontierNodes
            IN  /\ Len(nodes) >= 1
                /\ \A i \in DOMAIN nodes :
                       nodes[i].difficulty <= 2 /\ parseTimeToMinutes(nodes[i].duration) <= 30

(***************************************************************************)
(* Properties of strategy evolution.                                       *)
(***************************************************************************)
\* the frontier nodes of the roadmap as loadPathHTA returns it now
roadmapNodes == IF roadmapLoaded = null THEN <<>> ELSE get(roadmapLoaded, "frontierNodes", <<>>)

\* the positions that pass the admission rules 1 and 2 of selectOptimalTask
admissible(nodes) ==
    {i \in DOMAIN nodes : ~get(nodes[i], "completed", FALSE) /\ prerequisitesMet(nodes[i], nodes)}

\* this step is the one in which generateSmartNextTasks of p returns
generates(p) ==
    /\ ops[p].kind = "evolve"
    /\ "newTasks" \notin DOMAIN ops[p]
    /\ "newTasks" \in DOMAIN ops'[p]

\* C22: when the roadmap has no admissible task (a roadmap without tasks
\* included), evolveStrategy diagnoses generate_new_tasks and returns at
\* least one new task, each with generated = true.
C22_StallGeneratesNewTasks ==
    [][\A p \in Procs :
          (generates(p) /\ admissible(roadmapNodes) = {}) =>
              /\ ops'[p].analysis.recommendedEvolution = "generate_new_tasks"
              /\ Len(ops'[p].newTasks) >= 1
              /\ \A i \in DOMAIN ops'[p].newTasks : ops'[p].newTasks[i].generated]_vars

\* evolveStrategy has generated tasks for a roadmap that has tasks, none
\* of them admissible
C22_Witness ==
    \E p \in Procs :
        /\ ops[p].kind = "evolve"
        /\ "newTasks" \in DOMAIN ops[p]
        /\ ops[p].analysis.totalTasks > 0
        /\ ops[p].analysis.availableTasks = 0
        /\ Len(ops[p].newTasks) >= 1

\* the row of the decision table that matches first
firstMatchingRow(nodes, analysis) ==
    IF admissible(nodes) = {} THEN "generate_new_tasks"
    ELSE IF "low_engagement" \in Range(analysis.stuckIndicators) THEN "increase_variety_and_interest"
    ELSE IF analysis.userFeedback.sentiment = "negative" THEN "address_user_concerns"
    ELSE IF Cardinality(admissible(nodes)) < 3 THEN "expand_task_frontier"
    ELSE "optimize_existing_sequence"

\* C23: the decision of evolveStrategy is the first matching row, in the
\* order no admissible task, low engagement, negative sentiment, fewer than
\* three admissible tasks, otherwise optimize_existing_sequence; that last
\* decision returns no task and leaves the roadmap as it is.
C23_FirstMatchingRowDecides ==
    [][\A p \in Procs :
          generates(p) =>
              /\ ops'[p].analysis.recommendedEvolution
                     = firstMatchingRow(roadmapNodes, ops'[p].analysis)
              /\ ops'[p].analysis.recommendedEvolution = "optimize_existing_sequence" =>
                     /\ ops'[p].newTasks = <<>>
                     /\ ops'[p].pc = "done"
                     /\ hta' = hta]_vars

\* evolveStrategy has returned with the last row of the table
C23_Witness ==
    \E p \in Procs :
        /\ ops[p].kind = "evolve"
        /\ ops[p].pc = "done"
        /\ "analysis" \in DOMAIN ops[p]
        /\ ops[p].analysis.recommendedEvolution = "optimize_existing_sequence"
        /\ ops[p].result.value.new_tasks = <<>>

\* the priority generateBranchNodesAI gives a task of the node's difficulty
generatorPriority(node) == 200 + node.difficulty * 10

\* this step is the one in which the save of evolveStrategy of p succeeds
evolveSaves(p) ==
    /\ ops[p].kind = "evolve"
    /\ ops[p].pc = "write"
    /\ ops'[p].pc = "done"
    /\ ops'[p].ok

\* C24: a save of evolveStrategy puts at most 5 tasks behind the frontier
\* nodes of the roadmap, each of them with generated = true and a priority
\* above the one the generator gives a task of the same difficulty.
C24_AtMostFiveBoostedTasks ==
    [][\A p \in Procs :
          evolveSaves(p) =>
              LET old == persistedNodes
                  new == hta'.frontierNodes
                  appended == SubSeq(new, Len(old) + 1, Len(new))
              IN  /\ Len(new) >= Len(old)
                  /\ SubSeq(new, 1, Len(old)) = old
                  /\ Len(appended) <= 5
                  /\ \A i \in DOMAIN appended :
                         /\ appended[i].generated
                         /\ appended[i].priority > generatorPriority(appended[i])]_vars

\* evolveStrategy has saved a roadmap with a task that builds on a
\* completed one
C24_Witness ==
    \E p \in Procs :
        /\ ops[p].kind = "evolve"
        /\ ops[p].pc = "done"
        /\ "saved" \in DOMAIN ops[p]
        /\ ops[p].ok
        /\ ops[p].analysis.recommendedEvolution = "expand_task_frontier"
        /\ ops[p].analysis.completedTasks > 0
        /\ hta = ops[p].saved

(***************************************************************************)
(* Properties of the failures.                                             *)
(***************************************************************************)
\* the operation of p has returned after a save that failed
saveFailed(p) ==
    /\ ops[p].pc = "done"
    /\ "saved" \in DOMAIN ops[p]
    /\ ~ops[p].ok

\* the result is one of the error texts
ErrorTexts == {ErrorBuildingTree.text, ErrorEvolvingStrategy.text, ErrorGettingNextTask.text}

\* C25: an operation (buildHTATree, evolveStrategy, storeGeneratedTasks)
\* whose save of the roadmap failed returns a failed result, never the
\* result of a successful update.
C25_FailedSaveIsReported ==
    \A p \in Procs :
        saveFailed(p) =>
            \/ ops[p].result.kind = "thrown"
            \/ ops[p].result.value.text \in ErrorTexts

\* C26: without a project configuration every operation returns an error
\* text, none throws, and the roadmap on disk stays as it was.
C26_MissingConfigurationIsAnErrorText ==
    (~activeProject \/ config = null) =>
        /\ hta = null
        /\ \A p \in Procs :
               ops[p].kind # "idle" =>
                   /\ ops[p].pc = "done"
                   /\ ops[p].result.kind = "returned"
                   /\ ops[p].result.value.text \in ErrorTexts

(***************************************************************************)
(* Properties of the clock texts.                                          *)
(***************************************************************************)
\* C27: parseTime gives back the minutes formatTime was called with, for
\* every minute of the day; 360 is written 6:00 AM, 720 is 12:00 PM and
\* 1350 is 10:30 PM.
C27_ParseInvertsFormat ==
    /\ (call # null /\ call.op = "parseTime" /\ "minutes" \in DOMAIN call) =>
           response = Number(call.minutes)
    /\ (call # null /\ call.op = "formatTime") =>
           /\ call.minutes = 360 => response = <<"6", ":", "0", "0", " ", "A", "M">>
           /\ call.minutes = 720 => response = <<"1", "2", ":", "0", "0", " ", "P", "M">>
           /\ call.minutes = 1350 => response = <<"1", "0", ":", "3", "0", " ", "P", "M">>

\* the text of a minute after noon has been parsed back
C27_Witness ==
    /\ call # null
    /\ call.op = "parseTime"
    /\ "minutes" \in DOMAIN call
    /\ call.minutes = 1350
    /\ response = Number(1350)

(***************************************************************************)
(* Properties of selection and evolution together.                         *)
(***************************************************************************)
\* evolveStrategy of p has analysed the roadmap and not yet gone on
analysed(p) ==
    /\ ops[p].kind = "evolve"
    /\ ops[p].stage = 2
    /\ "newTasks" \notin DOMAIN ops[p]

\* the candidates selectOptimalTask has when the time is no limit
candidatesWithoutLimit(nodes) == availableTasks(nodes, <<"9", "9", "9", "9", " ", "h", "o", "u", "r", "s">>)

\* C28: the availableTasks that evolveStrategy computes is the number of
\* tasks of the roadmap that pass the admission rules 1 and 2 of select
\* (not completed, every prerequisite the id or the title of a completed
\* task): the number of candidates select has with unlimited time.
C28_AvailableCountIsAdmission ==
    \A p \in Procs :
        analysed(p) =>
            /\ ops[p].analysis.availableTasks = Cardinality(admissible(roadmapNodes))
            /\ ops[p].analysis.availableTasks = Len(candidatesWithoutLimit(roadmapNodes))

\* the analysis counted one admissible task in a roadmap of two open
\* tasks, one of which waits for a task that is not completed
C28_Witness ==
    \E p \in Procs :
        /\ analysed(p)
        /\ ops[p].analysis.totalTasks = 2
        /\ ops[p].analysis.completedTasks = 0
        /\ ops[p].analysis.availableTasks = 1

\* evolveStrategy of p has returned after a successful save
evolveSaved(p) ==
    /\ ops[p].kind = "evolve"
    /\ ops[p].pc = "done"
    /\ "saved" \in DOMAIN ops[p]
    /\ ops[p].ok

\* the frontier nodes evolveStrategy of p found before it added its tasks
nodesBefore(p) ==
    SubSeq(ops[p].saved.frontierNodes, 1,
           Len(ops[p].saved.frontierNodes) - Len(ops[p].newTasks))

\* this step is a getNextTask request with at least 15 minutes
selectsWithQuarterHour ==
    /\ call = null
    /\ call' # null
    /\ call'.op = "getNextTask"
    /\ parseTimeToMinutes(call'.timeAvailable) >= 15

\* C29: once evolveStrategy has run on a roadmap without admissible task
\* and saved, the roadmap has an admissible task, and a getNextTask that
\* follows with 15 minutes or more returns a task.
C29_EvolutionUnblocksSelection ==
    /\ [](\A p \in Procs :
             (evolveSaved(p) /\ admissible(nodesBefore(p)) = {}) =>
                 admissible(roadmapNodes) # {})
    /\ [][\A p \in Procs :
             (evolveSaved(p) /\ admissible(nodesBefore(p)) = {} /\ selectsWithQuarterHour) =>
                 response'.selected_task # null]_vars

\* after evolveStrategy on a roadmap whose only task was completed,
\* getNextTask has returned one of the new tasks
C29_Witness ==
    \E p \in Procs :
        /\ evolveSaved(p)
        /\ Len(nodesBefore(p)) = 1
        /\ admissible(nodesBefore(p)) = {}
        /\ call # null
        /\ response.selected_task # null
        /\ response.selected_task.generated

\* getNextTask has been served before and found no task to return
selectGaveNone == call # null /\ call.op = "getNextTask" /\ response.selected_task = null

\* C30: when getNextTask has returned no task for the roadmap, the
\* evolveStrategy that follows on the same roadmap generates at least one
\* new task for it.
C30_NoneThenEvolveAddsTask ==
    [][\A p \in Procs :
          (generates(p) /\ selectGaveNone) => Len(ops'[p].newTasks) >= 1]_vars

(***************************************************************************)
(* Properties of the score of an admitted task.                            *)
(***************************************************************************)
\* Selection over every roadmap and every time available, at one energy
\* level and without context from memory: neither enters the time-fit term.
NextTimeFit ==
    \E timeAvailable \in TimeChoices : getNextTask(EmptyString, 3, timeAvailable)

SpecTimeFit == InitSelect /\ [][NextTimeFit]_vars

\* the score of a task for the request served, without its time-fit term
ScoreBesidesTimeFit(task) ==
    LET projectContext == projectContextOf(config)
    IN  basePriority(task)
        + 20 * (5 - Abs(call.energyLevel - taskDifficulty(task)))
        + (IF isDomainRelevant(task, projectContext) THEN 100 ELSE 0)
        + (IF call.contextFromMemory # EmptyString /\ isContextRelevant(task, call.contextFromMemory)
           THEN 50 ELSE 0)
        + (IF get(task, "opportunityType", "none") = BreakthroughAmplification THEN 100 ELSE 0)
        + (IF get(task, "generated", FALSE) THEN 25 ELSE 0)

\* C31: the time-fit term of every candidate that select admits is +50
\* or +20, and so is the part of the returned task's score that its other
\* terms leave; the tiers -20 and -100 are never applied to a task that
\* passed the cutoff of 1.2 x timeAvailable.
C31_AdmittedTimeFitIsPositive ==
    SelectReached =>
        LET cands == availableTasks(hta.frontierNodes, call.timeAvailable)
        IN  /\ \A i \in DOMAIN cands :
                   timeFit(parseTimeToMinutes(call.timeAvailable),
                           parseTimeToMinutes(durationOrDefault(cands[i]))) \in {50, 20}
            /\ response.selected_task # null =>
                   response.selected_task.score - ScoreBesidesTimeFit(response.selected_task)
                       \in {50, 20}

\* a 12-minute task was returned for 10 minutes: it is longer than the
\* time available and was scored in the +20 tier
C31_Witness ==
    /\ TaskReturned
    /\ call.timeAvailable = Minutes(10)
    /\ response.selected_task.duration = Minutes(12)
    /\ response.selected_task.score - ScoreBesidesTimeFit(response.selected_task) = 20

(***************************************************************************)
(* Properties of the stall indicators and the feedback.                    *)
(***************************************************************************)
\* the completions of the last 7 days in the learning history of the
\* evolveStrategy request of p
recentCompletionsOf(p) ==
    LET Recent(t) == t.daysAgo <= 7
        history == IF ops[p].learningHistory = null THEN <<>> ELSE ops[p].learningHistory
    IN  SelectSeq(get(history, "completedTopics", <<>>), Recent)

\* C32: low_engagement is reported only when a task was completed in the
\* last 7 days and the mean energy after those completions is below 2.5;
\* without such a completion no_recent_progress is reported and
\* low_engagement is not, so that three admissible tasks and neutral
\* feedback give optimize_existing_sequence.
C32_LowEngagementNeedsCompletions ==
    \A p \in Procs :
        analysed(p) =>
            LET recent == recentCompletionsOf(p)
                indicators == Range(ops[p].analysis.stuckIndicators)
            IN  /\ "low_engagement" \in indicators =>
                       /\ Len(recent) >= 1
                       /\ 2 * sumEnergy(recent) < 5 * Len(recent)
                /\ Len(recent) = 0 => "no_recent_progress" \in indicators
                /\ (/\ Len(recent) = 0
                    /\ ops[p].analysis.availableTasks >= 3
                    /\ ops[p].analysis.userFeedback.sentiment = "neutral") =>
                       ops[p].analysis.recommendedEvolution = "optimize_existing_sequence"

(***************************************************************************)
(* Properties of the cache.                                                *)
(***************************************************************************)
\* C33: after an operation whose save failed, a load returns the document
\* saved last, without the changes the operation did not get saved.
C33_LoadSeesLastSavedDocument ==
    \A p \in Procs : saveFailed(p) => roadmapLoaded = hta

(***************************************************************************)
(* Properties of the task that expands the frontier.                       *)
(***************************************************************************)
\* the new tasks build on the completed task that stands last in nodes:
\* one task, one step harder up to 5, waiting for that task by its id, and
\* admissible once it stands behind nodes
buildsOnLastCompleted(nodes, newTasks) ==
    LET done == SelectSeq(nodes, isCompleted)
    IN  /\ done # <<>>
        /\ Len(newTasks) = 1
        /\ newTasks[1].difficulty = min(5, done[Len(done)].difficulty + 1)
        /\ get(newTasks[1], "prerequisites", <<>>) = <<done[Len(done)].id>>
        /\ (Len(nodes) + 1) \in admissible(nodes \o newTasks)

\* C34: the task that expand_task_frontier creates builds on the task
\* completed last: its difficulty is min(5, that difficulty + 1), its only
\* prerequisite is the id of that task, and it is admissible as soon as it
\* is appended.
C34_ExpansionBuildsOnCompleted ==
    [][\A p \in Procs :
          (generates(p) /\ ops'[p].analysis.recommendedEvolution = "expand_task_frontier") =>
              buildsOnLastCompleted(roadmapNodes, ops'[p].newTasks)]_vars

(***************************************************************************)
(* Properties of the references in the document on disk.                   *)
(***************************************************************************)
\* C35: in the document on disk every prerequisite of every frontier node
\* is the id or the title of a frontier node of the same document.
C35_PrerequisitesResolve ==
    \A i \in DOMAIN persistedNodes :
        \A k \in DOMAIN get(persistedNodes[i], "prerequisites", <<>>) :
            \E j \in DOMAIN persistedNodes :
                \/ persistedNodes[j].id = persistedNodes[i].prerequisites[k]
                \/ persistedNodes[j].title = persistedNodes[i].prerequisites[k]

(***************************************************************************)
(* Properties of the branch ids.                                           *)
(***************************************************************************)
\* C36: the id of every branch that generateStrategicBranches returns is
\* the slug of its title (lower case, every run of other characters than
\* letters and digits one underscore, no underscore at either end),
\* whatever the position of the branch and wherever its title came from.
C36_BranchIdIsSlugOfTitle ==
    DecomposeReturned =>
        \A i \in DOMAIN response.value : response.value[i].id = slugOf(response.value[i].title)

\* C37: no two branches that generateStrategicBranches returns share an
\* id.
C37_BranchIdsUnique ==
    DecomposeReturned =>
        \A i, j \in DOMAIN response.value :
            response.value[i].id = response.value[j].id => i = j
(***************************************************************************)
(* HtaTreeBuilder.generateSequencedFrontierNodes and sortNodesBySequence.  *)
(* The nodes of every branch are collected in branch order, numbered from  *)
(* node_1, and the collected list is sorted before it is returned.         *)
(***************************************************************************)
\* the difficulty the sort prefers for a knowledge level
idealDifficulty(knowledgeLevel) ==
    IF knowledgeLevel <= 2 THEN 1
    ELSE IF knowledgeLevel <= 4 THEN 2
    ELSE IF knowledgeLevel <= 6 THEN 3
    ELSE min(knowledgeLevel - 2, 5)

\* a comparator that leaves the priority out
sequenceComparator_distanceOnly(a, b, knowledgeLevel) ==
    Abs(a.difficulty - idealDifficulty(knowledgeLevel))
        - Abs(b.difficulty - idealDifficulty(knowledgeLevel))

\* the comparator handed to Array.prototype.sort: negative when a goes first
sequenceComparator(a, b, knowledgeLevel) ==
    IF a.priority # b.priority
    THEN b.priority - a.priority
    ELSE Abs(a.difficulty - idealDifficulty(knowledgeLevel))
             - Abs(b.difficulty - idealDifficulty(knowledgeLevel))

\* a node put into a sorted list behind every node that does not go after it
insertSequenced(sorted, node, knowledgeLevel) ==
    LET k == Cardinality({i \in DOMAIN sorted :
                              sequenceComparator(sorted[i], node, knowledgeLevel) <= 0})
    IN  SubSeq(sorted, 1, k) \o <<node>> \o SubSeq(sorted, k + 1, Len(sorted))

RECURSIVE sortedPrefix(_, _, _)
sortedPrefix(frontierNodes, n, knowledgeLevel) ==
    IF n = 0 THEN <<>>
    ELSE insertSequenced(sortedPrefix(frontierNodes, n - 1, knowledgeLevel),
                         frontierNodes[n], knowledgeLevel)

\* frontierNodes.sort(comparator): the sort of the runtime is stable
sortNodesBySequence(frontierNodes, knowledgeLevel) ==
    sortedPrefix(frontierNodes, Len(frontierNodes), knowledgeLevel)

\* the request queued for the client when the Oracle defers
deferredTasksRequest(branch, knowledgeLevel) ==
    [claude_request |-> [goal |-> branch.title, knowledgeLevel |-> knowledgeLevel],
     type |-> "tasks",
     context |-> [branchId |-> branch.id, pathName |-> branch.title]]

\* entry, up to the first await: the request for the tasks of the first
\* branch is sent; without branches the empty list is returned at once
generateSequencedFrontierNodes(strategicBranches, knowledgeLevel, completedTasks) ==
    /\ call = null
    /\ call' = [op |-> "generateSequencedFrontierNodes",
                strategicBranches |-> strategicBranches,
                knowledgeLevel |-> knowledgeLevel, completedTasks |-> completedTasks]
    /\ IF Len(strategicBranches) = 0
       THEN /\ response' = Returned(sortNodesBySequence(<<>>, knowledgeLevel))
            /\ UNCHANGED <<builder, llmLog>>
       ELSE /\ builder' = [pc |-> "sequence", idx |-> 1, frontierNodes |-> <<>>, nodeId |-> 1]
            /\ llmLog' = Append(llmLog, request("hta-task-generation"))
            /\ UNCHANGED response
    /\ UNCHANGED <<activeProject, config, hta, errorLog, pendingClaudeRequests>>
    /\ UNCHANGED persistence

\* the request for the tasks of one branch is answered: the nodes made of
\* the answer join the collected ones, and either the request for the next
\* branch is sent or the collected nodes are sorted and returned
branchNodesAnswered(aiResponse) ==
    /\ builder # null
    /\ builder.pc = "sequence"
    /\ LET branch == call.strategicBranches[builder.idx]
           aiNodes == branchNodes(aiResponse, branch, call.knowledgeLevel,
                                  call.completedTasks, builder.nodeId)
           collected == builder.frontierNodes \o aiNodes
       IN  /\ pendingClaudeRequests' =
                  IF aiResponse = Deferred
                  THEN Append(pendingClaudeRequests,
                              deferredTasksRequest(branch, call.knowledgeLevel))
                  ELSE pendingClaudeRequests
           /\ IF aiResponse = Threw
              THEN /\ builder' = null
                   /\ llmLog' = answered(llmLog, aiResponse)
                   /\ response' = Thrown
              ELSE IF builder.idx < Len(call.strategicBranches)
              THEN /\ builder' = [builder EXCEPT !.idx = @ + 1,
                                                 !.frontierNodes = collected,
                                                 !.nodeId = @ + Len(aiNodes)]
                   /\ llmLog' = Append(answered(llmLog, aiResponse),
                                       request("hta-task-generation"))
                   /\ UNCHANGED response
              ELSE /\ builder' = null
                   /\ llmLog' = answered(llmLog, aiResponse)
                   /\ response' = Returned(sortNodesBySequence(collected, call.knowledgeLevel))
    /\ UNCHANGED <<activeProject, config, hta, errorLog, call>>
    /\ UNCHANGED persistence

\* sortNodesBySequence called on a list of nodes
nodesSorted(frontierNodes, knowledgeLevel) ==
    /\ call = null
    /\ call' = [op |-> "sortNodesBySequence", frontierNodes |-> frontierNodes,
                knowledgeLevel |-> knowledgeLevel]
    /\ response' = Returned(sortNodesBySequence(frontierNodes, knowledgeLevel))
    /\ UNCHANGED <<activeProject, config, hta, errorLog, builder, llmLog,
                   pendingClaudeRequests>>
    /\ UNCHANGED persistence

(***************************************************************************)
(* Inputs of the sequencing model.                                         *)
(***************************************************************************)
MaxNodes == 3

Chords == <<"C", "h", "o", "r", "d", "s">>

\* nodes whose priority and difficulty vary independently
SequenceNode(priority, difficulty) ==
    [id |-> EmptyString, title |-> HoldGuitar, priority |-> priority,
     difficulty |-> difficulty]

SequenceNodes == {SequenceNode(priority, difficulty) :
                      priority \in {210, 230}, difficulty \in {1, 3, 5}}

\* lists of such nodes, numbered in list order
SequenceLists ==
    {[i \in DOMAIN nodes |-> [nodes[i] EXCEPT !.id = NodeId(i)]] :
         nodes \in SeqsBetween(SequenceNodes, 0, MaxNodes)}

NextSequence ==
    \/ \E knowledgeLevel \in AllKnowledgeLevels,
          completedTasks \in {<<>>, <<TuneStrings>>} :
           generateSequencedFrontierNodes(domainBranches(<<General, Chords>>, knowledgeLevel),
                                          knowledgeLevel, completedTasks)
    \/ \E aiResponse \in RegenerationAnswers : branchNodesAnswered(aiResponse)
    \/ \E frontierNodes \in SequenceLists, knowledgeLevel \in AllKnowledgeLevels :
           nodesSorted(frontierNodes, knowledgeLevel)

SpecSequence == InitGenerate /\ [][NextSequence]_vars

(***************************************************************************)
(* Properties of the sequencing.                                           *)
(***************************************************************************)
SequenceReturned ==
    /\ call # null
    /\ call.op \in {"generateSequencedFrontierNodes", "sortNodesBySequence"}
    /\ response # null
    /\ response.kind = "returned"

\* the place a returned node had in the list before the sort: nodes are
\* numbered node_1, node_2, ... in that order
inputPlace(node) == CHOOSE k \in 1..(2 * (MaxNodes + MaxCandidates)) : NodeId(k) = node.id

difficultyDistance(node, knowledgeLevel) ==
    LET ideal == IF knowledgeLevel \in 1..2 THEN 1
                 ELSE IF knowledgeLevel \in 3..4 THEN 2
                 ELSE IF knowledgeLevel \in 5..6 THEN 3
                 ELSE 5
    IN  Abs(node.difficulty - ideal)

\* C38: the list generation returns is ordered by priority descending,
\* among nodes of equal priority by the distance of the difficulty from the
\* ideal difficulty of the level (1 for levels 1-2, 2 for 3-4, 3 for 5-6,
\* 5 for 7-10) ascending, and nodes equal on both keys keep their input
\* order; the sort neither drops nor adds a node
C38_SequencedByPriorityThenDistance ==
    SequenceReturned =>
        LET out == response.value
            level == call.knowledgeLevel
        IN  /\ \A i, j \in DOMAIN out :
                   i < j =>
                       \/ out[i].priority > out[j].priority
                       \/ /\ out[i].priority = out[j].priority
                          /\ difficultyDistance(out[i], level) < difficultyDistance(out[j], level)
                       \/ /\ out[i].priority = out[j].priority
                          /\ difficultyDistance(out[i], level) = difficultyDistance(out[j], level)
                          /\ inputPlace(out[i]) < inputPlace(out[j])
            /\ {out[i].id : i \in DOMAIN out} = {NodeId(k) : k \in 1..Len(out)}
            /\ call.op = "sortNodesBySequence" =>
                   /\ Len(out) = Len(call.frontierNodes)
                   /\ \A i \in DOMAIN out : out[i] = call.frontierNodes[inputPlace(out[i])]

\* a sort that brings the last node to the front for its priority and
\* orders the other two, equal in priority, by their distance
C38_Witness ==
    /\ SequenceReturned
    /\ call.op = "sortNodesBySequence"
    /\ Len(response.value) = 3
    /\ response.value[1].priority > response.value[2].priority
    /\ response.value[2].priority = response.value[3].priority
    /\ difficultyDistance(response.value[2], call.knowledgeLevel)
           < difficultyDistance(response.value[3], call.knowledgeLevel)
    /\ inputPlace(response.value[1]) = 3
    /\ inputPlace(response.value[3]) = 1
(***************************************************************************)
(* TaskIntelligence.analyzeFeedback applied to feedback texts of a few     *)
(* words.                                                                  *)
(***************************************************************************)
MaxWords == 3

Great == <<"G", "r", "e", "a", "t">>

GOOD == <<"G", "O", "O", "D">>

Stuck == <<"s", "t", "u", "c", "k">>

Difficulty == <<"d", "i", "f", "f", "i", "c", "u", "l", "t", "y">>

Today == <<"t", "o", "d", "a", "y">>

FeedbackWords == {Great, GOOD, Stuck, Difficulty, Today}

RECURSIVE joinWords(_)
joinWords(words) ==
    IF Len(words) = 0 THEN EmptyString
    ELSE IF Len(words) = 1 THEN words[1]
    ELSE JoinBlank(words[1], joinWords(Tail(words)))

\* the feedback texts: up to MaxWords words with one blank between
FeedbackTexts == {joinWords(words) : words \in SeqsBetween(FeedbackWords, 0, MaxWords)}

\* analyzeFeedback called on a feedback text
feedbackAnalysed(feedback) ==
    /\ call = null
    /\ call' = [op |-> "analyzeFeedback", feedback |-> feedback]
    /\ response' = Returned(analyzeFeedback(feedback))
    /\ UNCHANGED <<activeProject, config, hta, errorLog, builder, llmLog,
                   pendingClaudeRequests>>
    /\ UNCHANGED persistence

NextFeedback ==
    \E feedback \in FeedbackTexts : feedbackAnalysed(feedback)

SpecFeedback == InitTime /\ [][NextFeedback]_vars

FeedbackAnalysed ==
    /\ call # null
    /\ call.op = "analyzeFeedback"
    /\ response # null

\* the keywords of the two lists that a word of the feedback texts holds
positiveKeywordsIn(word) ==
    IF word = Great THEN {"great"} ELSE IF word = GOOD THEN {"good"} ELSE {}

negativeKeywordsIn(word) ==
    IF word = Stuck THEN {"stuck"}
    ELSE IF word = Difficulty THEN {"difficult", "difficulty"}
    ELSE {}

\* the words of a feedback text
wordsOf(feedback) == SplitOn(feedback, 1, <<>>, {" "})

positiveFound(feedback) ==
    LET words == wordsOf(feedback)
    IN  Cardinality(UNION {positiveKeywordsIn(words[i]) : i \in DOMAIN words})

negativeFound(feedback) ==
    LET words == wordsOf(feedback)
    IN  Cardinality(UNION {negativeKeywordsIn(words[i]) : i \in DOMAIN words})

\* C39: the sentiment of a feedback text is positive when more positive
\* than negative keywords are found in it, negative when more negative than
\* positive keywords are found, and neutral when the counts are equal, as
\* they are for empty feedback
C39_SentimentFollowsKeywordCounts ==
    FeedbackAnalysed =>
        LET positiveCount == positiveFound(call.feedback)
            negativeCount == negativeFound(call.feedback)
            sentiment == response.value.sentiment
        IN  /\ sentiment \in {"positive", "negative", "neutral"}
            /\ sentiment = "positive" <=> positiveCount > negativeCount
            /\ sentiment = "negative" <=> negativeCount > positiveCount
            /\ sentiment = "neutral" <=> positiveCount = negativeCount
            /\ call.feedback = EmptyString => sentiment = "neutral"

\* a feedback with as many positive as negative keywords, and not none,
\* found neutral
C39_Witness ==
    /\ FeedbackAnalysed
    /\ positiveFound(call.feedback) = 2
    /\ negativeFound(call.feedback) = 2
    /\ response.value.sentiment = "neutral"
(***************************************************************************)
(* AsyncForestServer: initialize, _performInitialization and               *)
(* ensureInitialized.  The server object is held in builder, with the      *)
(* fields initialized and initializationPromise and the number of times    *)
(* _performInitialization was entered; ops holds the calls in progress.    *)
(*   await   the call waits for the initialization promise                 *)
(*   done    the call has returned or thrown, or none was made             *)
(* A promise is pending, fulfilled or rejected.                            *)
(***************************************************************************)
MaxCalls == 4

PromisePending == [state |-> "pending"]
PromiseFulfilled == [state |-> "fulfilled"]
PromiseRejected == [state |-> "rejected"]

\* the constructor
AsyncForestServer == [initialized |-> FALSE, initializationPromise |-> null, performed |-> 0]

\* _performInitialization up to its await of Promise.all: the promise it
\* returns is pending, or rejected when a constructor has thrown
performInitialization(server, fails) ==
    [server EXCEPT !.performed = @ + 1,
                   !.initializationPromise = IF fails THEN PromiseRejected ELSE PromisePending]

\* initialize without the look at the promise of an earlier call
initializeCall_promiseIgnored(server, fails) ==
    IF server.initialized
    THEN [server |-> server, pc |-> "done"]
    ELSE [server |-> performInitialization(server, fails), pc |-> "await"]

\* initialize up to its return or its await: the server afterwards and
\* the position of the call
initializeCall(server, fails) ==
    IF server.initialized
    THEN [server |-> server, pc |-> "done"]
    ELSE IF server.initializationPromise # null
    THEN [server |-> server, pc |-> "await"]
    ELSE [server |-> performInitialization(server, fails), pc |-> "await"]

\* a call of p gets to the position of initializeCall
called(p, kind, started) ==
    /\ builder' = started.server
    /\ ops' = [ops EXCEPT ![p] = [kind |-> kind, pc |-> started.pc, obj |-> 0,
                                  result |-> IF started.pc = "done" THEN "returned" ELSE "none",
                                  waited |-> started.pc = "await"]]
    /\ clock' = clock + 1
    /\ UNCHANGED <<activeProject, config, hta, errorLog, call, response, llmLog,
                   pendingClaudeRequests, heap, cache>>

\* initialize()
initialize(p) ==
    /\ ops[p].pc = "done"
    /\ clock < MaxCalls
    /\ \E fails \in BOOLEAN : called(p, "initialize", initializeCall(builder, fails))

\* ensureInitialized(): if (!this.initialized) await this.initialize()
ensureInitialized(p) ==
    /\ ops[p].pc = "done"
    /\ clock < MaxCalls
    /\ \E fails \in BOOLEAN : called(p, "ensureInitialized", initializeCall(builder, fails))

\* _performInitialization after its await: the modules are assigned, the
\* router and the handlers are made and initialized becomes true, or one
\* of the constructors throws and the promise is rejected
modulesInitialized(ok) ==
    /\ builder.initializationPromise = PromisePending
    /\ builder' = IF ok
                  THEN [builder EXCEPT !.initialized = TRUE,
                                       !.initializationPromise = PromiseFulfilled]
                  ELSE [builder EXCEPT !.initializationPromise = PromiseRejected]
    /\ UNCHANGED <<activeProject, config, hta, errorLog, call, response, llmLog,
                   pendingClaudeRequests>>
    /\ UNCHANGED persistence

\* the promise a call waits for is settled: the call returns, or throws
\* what the initialization has thrown
initializationAwaited(p) ==
    /\ ops[p].pc = "await"
    /\ builder.initializationPromise \in {PromiseFulfilled, PromiseRejected}
    /\ ops' = [ops EXCEPT ![p] = [@ EXCEPT !.pc = "done",
                                           !.result = IF builder.initializationPromise = PromiseFulfilled
                                                      THEN "returned" ELSE "thrown"]]
    /\ UNCHANGED <<activeProject, config, hta, errorLog, call, response, builder, llmLog,
                   pendingClaudeRequests, heap, cache, clock>>

NoCalls == [p \in Procs |-> [kind |-> "none", pc |-> "done", obj |-> 0,
                             result |-> "none", waited |-> FALSE]]

InitServer ==
    /\ activeProject = FALSE
    /\ config = null
    /\ hta = null
    /\ errorLog = <<>>
    /\ call = null
    /\ response = null
    /\ builder = AsyncForestServer
    /\ llmLog = <<>>
    /\ pendingClaudeRequests = <<>>
    /\ ops = NoCalls
    /\ heap = EmptyHeap
    /\ cache = 0
    /\ clock = 0

NextServer ==
    \/ \E p \in Procs : initialize(p)
    \/ \E p \in Procs : ensureInitialized(p)
    \/ \E ok \in BOOLEAN : modulesInitialized(ok)
    \/ \E p \in Procs : initializationAwaited(p)

SpecServer == InitServer /\ [][NextServer]_vars

\* C40: _performInitialization is entered at most once, however many calls
\* of initialize and ensureInitialized overlap; a call that has returned
\* has done so with initialized = true, a call that still waits has not
\* returned, and a call ends with an exception only when the one
\* initialization has failed
C40_InitializedOnceBeforeCallsReturn ==
    /\ builder.performed <= 1
    /\ \A p \in Procs :
           /\ ops[p].result = "returned" => builder.initialized /\ builder.performed = 1
           /\ ops[p].pc = "await" => ops[p].result = "none"
           /\ ops[p].result = "thrown" =>
                  ~builder.initialized /\ builder.initializationPromise = PromiseRejected

\* an initialize call and an ensureInitialized call that both waited for
\* the one initialization and both returned
C40_Witness ==
    /\ builder.performed = 1
    /\ builder.initialized
    /\ \A p \in Procs : ops[p].waited /\ ops[p].result = "returned"
    /\ \E p, q \in Procs : ops[p].kind = "initialize" /\ ops[q].kind = "ensureInitialized"

=============================================================================
